---- MODULE Spec2Model ----
(***************************************************************************)
(* The rFactor OpenMotorsport logging plug-in: the recording state machine *)
(* (LoggingPlugin), the sampler, the sector/lap-time resolver and the      *)
(* session model (OpenMotorsport::Session).                                *)
(*                                                                         *)
(* Time.  The plug-in keeps times as float seconds and converts them with  *)
(* SEC_TO_MS(x) = (int)(x * 1000).  Here a time is an integer number of    *)
(* ticks, TicksPerMs ticks to the millisecond, so that the truncation of   *)
(* SEC_TO_MS is a real operation.  Floating-point rounding of the sums is  *)
(* not modelled.                                                           *)
(***************************************************************************)
EXTENDS Integers, Sequences, FiniteSets, TLC

(***************************************************************************)
(* Bounds of the model.                                                    *)
(***************************************************************************)
TicksPerMs == 2     \* resolution of a time value
MaxSamples == 2     \* samples of a channel: SampleBlocks of a session
MaxMarkers == 2     \* markers of a session
MaxElapsed == 2     \* mTotalElapsed of a session (ticks)
MaxChannels == 2    \* AddChannel calls of a client of the library
MaxQueue == 2       \* frames on the DataQueue of the threaded engine
MaxThreads == 2     \* threads the threaded engine creates
MaxCrossingMarkers == 3  \* markers of a session that crosses a lap boundary

(***************************************************************************)
(* Program constants.                                                      *)
(***************************************************************************)
kGamePhaseNotEnteredGame == 10
kGamePhaseBeforeSession == 0
kGamePhaseFormationLap == 3
kGamePhaseGreenFlag == 5
kGamePhaseFullCourseYellow == 6
kGamePhaseSessionOver == 8

kSectorsSector1 == 1
kSectorsSector2 == 2
kSectorsSector3 == 0

krFactorNumberOfSectors == 2
kDataSource == "rFactor"
kChannelVariableSampleInterval == -1
kChannelNoUnits == ""
kChannelNoGroup == ""
kSessionRace == 7
kSessions == <<"Testing", "Practice", "", "", "", "Qualifying", "Warmup", "Race">>

kSessionNoSectors == -1
kSessionNoVehicleCategory == ""
kSessionNoUser == "No User"
kSessionNoVehicleName == "No Vehicle"
kSessionNoTrackName == "No Track"
kSessionNoDataSource == ""

kGroupWheelRF == "Wheel RF"
kGroupWheelRR == "Wheel RR"
kGroupWheelLF == "Wheel LF"
kGroupWheelLR == "Wheel RF"
kWheels == <<kGroupWheelLF, kGroupWheelRF, kGroupWheelLR, kGroupWheelRR>>

kGroupAcceleration == "Acceleration"
kGroupPosition == "Position"
kGroupDriver == "Driver"
kGroupEngine == "Engine"
kChannelTime == "Time"
kChannelDistance == "Distance"
kConfigurationRequireOneLap == "RequireOneLap"

NULL == [mNull |-> TRUE]

(***************************************************************************)
(* Unit conversions.                                                       *)
(***************************************************************************)
\* (int) of a quotient: truncation toward zero
TruncDiv(a, b) == IF a >= 0 THEN a \div b ELSE -((-a) \div b)

\* #define SEC_TO_MS(x) (int) (x * 1000), x in ticks
SEC_TO_MS(x) == TruncDiv(x, TicksPerMs)

\* #define MS_TO_SEC(x) (float) x / 1000, the result in ticks
MS_TO_SEC(x) == x * TicksPerMs

RECURSIVE ISqrtFrom(_, _)
ISqrtFrom(n, r) == IF (r + 1) * (r + 1) > n THEN r ELSE ISqrtFrom(n, r + 1)
\* sqrtf on the squares the frames produce (exact there)
sqrtf(n) == ISqrtFrom(n, 0)

(***************************************************************************)
(* OpenMotorsport::Channel, DataBuffer and Session.                        *)
(***************************************************************************)
\* Channel::Channel(id, name, sampleInterval, units, group); an empty DataBuffer
Channel(id, name, sampleInterval, units, group) ==
  [mId |-> id, mName |-> name, mSampleInterval |-> sampleInterval,
   mUnits |-> units, mGroup |-> group, mData |-> <<>>]

\* std::string key = name + "/" + group
ChannelKey(name, group) == name \o "/" \o group

\* Session::Session()
NewSession ==
  [mChannels |-> <<>>,
   mMarkers |-> <<>>,
   mNumSectors |-> kSessionNoSectors,
   mVehicleCategory |-> kSessionNoVehicleCategory,
   mFullName |-> kSessionNoUser,
   mTrackName |-> kSessionNoTrackName,
   mVehicleName |-> kSessionNoVehicleName,
   mDataSource |-> kSessionNoDataSource,
   mComments |-> ""]

\* Session::AddMarker
AddMarker(s, marker) == [s EXCEPT !.mMarkers = Append(@, marker)]

\* AddRelativeMarker that adds no offset
AddRelativeMarkerAbsolute(s, marker) ==
  [s EXCEPT !.mMarkers = Append(@, marker)]

\* Session::AddRelativeMarker
AddRelativeMarker(s, marker) ==
  IF Len(s.mMarkers) < 1
    THEN [s EXCEPT !.mMarkers = Append(@, marker)]
    ELSE [s EXCEPT !.mMarkers = Append(@, @[Len(@)] + marker)]

\* Session::GetChannel succeeds (it throws when the key is not registered)
HasChannel(s, name, group) ==
  /\ DOMAIN s.mChannels # {}
  /\ ChannelKey(name, group) \in DOMAIN s.mChannels

\* Session::AddChannel: unordered_map::insert keeps the entry a key has
AddChannel(s, channel) ==
  LET key == ChannelKey(channel.mName, channel.mGroup)
  IN IF key \in DOMAIN s.mChannels
       THEN s
       ELSE [s EXCEPT !.mChannels =
               [k \in DOMAIN @ \cup {key} |-> IF k = key THEN channel ELSE @[k]]]

\* Session::GetChannel: the session after the call, what it throws (<<>> when
\* it returns) and the key of the channel it returns a reference to
GetChannel(s, channelName, group) ==
  LET key == ChannelKey(channelName, group)
  IN IF DOMAIN s.mChannels = {}
       THEN [s |-> s, throws |-> <<"No channels.">>, channel |-> <<>>]
     ELSE IF key \notin DOMAIN s.mChannels
       THEN [s |-> s, throws |-> <<"Channel does not exist.">>, channel |-> <<>>]
     ELSE [s |-> s, throws |-> <<>>, channel |-> <<key>>]

\* GetChannel(name, group).GetDataBuffer().Write(value)
BufferWrite(s, channelName, group, value) ==
  LET got == GetChannel(s, channelName, group)
  IN IF got.throws # <<>> THEN got
     ELSE [got EXCEPT !.s.mChannels[got.channel[1]].mData = Append(@, value)]

\* Session::_createChannelXmlNode: the channel element (an attribute or a
\* child that is absent is <<>>); the group is the name of the group element
\* the channel element is under
ChannelXmlNode(channel) ==
  [id |-> channel.mId,
   units |-> IF channel.mUnits # kChannelNoUnits THEN <<channel.mUnits>> ELSE <<>>,
   interval |-> IF channel.mSampleInterval # kChannelVariableSampleInterval
                  THEN <<channel.mSampleInterval>> ELSE <<>>,
   name |-> channel.mName,
   group |-> IF channel.mGroup # kChannelNoGroup THEN <<channel.mGroup>> ELSE <<>>]

\* Session::_writeMetaXml: the document; order is the order in which the
\* unordered_map iterates over its keys.  The category element is created
\* when a category is set, and is linked to no parent: the vehicle element has
\* the name child only.
WriteMetaXml(s, order) ==
  [user |-> s.mFullName,
   vehicle |-> [name |-> s.mVehicleName],
   venue |-> [name |-> s.mTrackName],
   date |-> "date",
   datasource |-> s.mDataSource,
   comments |-> s.mComments,
   channels |-> [i \in 1..Len(order) |-> ChannelXmlNode(s.mChannels[order[i]])],
   markers |-> [sectors |-> IF s.mNumSectors # kSessionNoSectors
                              THEN <<s.mNumSectors>> ELSE <<>>,
                marker |-> s.mMarkers]]

\* the operations of the zip library that Session::Write checks
kZipSteps == <<"zipOpen", "meta.xml", "data", "zipClose">>

\* the entry of a channel under the name of channel 0
DataEntryFixedName(channel) ==
  [name |-> "data/0.bin",
   bytes |-> channel.mData,
   size |-> Len(channel.mData) * 4]

\* Session::Write, the entry of a channel: sprintf("data/%d.bin", id), the
\* bytes of the buffer (floats, in the order written) and its size
DataEntry(channel) ==
  [name |-> "data/" \o ToString(channel.mId) \o ".bin",
   bytes |-> channel.mData,
   size |-> Len(channel.mData) * 4]

\* Session::Write: what it throws (<<>> when it returns) and the entries the
\* archive holds.  order is the iteration order of the channel map, fails the
\* zip operation that fails (the first write of channel data when it is
\* "data"), "" when none does.
Write(s, order, fails) ==
  LET meta == [name |-> "meta.xml", xml |-> WriteMetaXml(s, order)]
      data == [i \in 1..Len(order) |-> DataEntry(s.mChannels[order[i]])]
  IN IF fails = "zipOpen"
       THEN [throws |-> <<"Failed to open OpenMotorsport file writing.">>,
             archive |-> <<>>]
     ELSE IF fails = "meta.xml"
       THEN [throws |-> <<"Failed to write OpenMotorsport/meta.xml.">>,
             archive |-> <<>>]
     ELSE IF fails = "data" /\ Len(order) > 0
       THEN [throws |-> <<"Failed to write channel data.">>,
             archive |-> <<meta>>]
     ELSE IF fails = "zipClose"
       THEN [throws |-> <<"Failed to close OpenMotorsport file.">>,
             archive |-> <<meta>> \o data]
     ELSE [throws |-> <<>>, archive |-> <<meta>> \o data]

(***************************************************************************)
(* The fixed channel catalogue.                                            *)
(***************************************************************************)
\* CreateLoggingSession, the channels before the wheel loop: <<name, units, group>>
kNonWheelCatalogue ==
  << <<"Acceleration X", "g", kGroupAcceleration>>,
     <<"Acceleration Y", "g", kGroupAcceleration>>,
     <<"Acceleration Z", "g", kGroupAcceleration>>,
     <<"Speed", "kph", kGroupPosition>>,
     <<"Pitch", "deg", kGroupPosition>>,
     <<"Roll", "deg", kGroupPosition>>,
     <<kChannelTime, "ms", kGroupPosition>>,
     <<kChannelDistance, "m", kGroupPosition>>,
     <<"Gear", "gear", kGroupDriver>>,
     <<"Throttle", "%", kGroupDriver>>,
     <<"Brake", "%", kGroupDriver>>,
     <<"Clutch", "%", kGroupDriver>>,
     <<"Steering", "%", kGroupDriver>>,
     <<"RPM", "rpm", kGroupEngine>>,
     <<"Clutch RPM", "rpm", kGroupEngine>>,
     <<"Fuel", "l", kGroupEngine>>,
     <<"Overheating", "boolean", kGroupEngine>> >>

\* CreateLoggingSession, the body of the wheel loop: <<name, units>>
kWheelCatalogue ==
  << <<"Rotation", "rad/sec">>,
     <<"Suspension Deflection", "m">>,
     <<"Right Height", "m">>,
     <<"Tire Load", "n">>,
     <<"Lateral Force", "n">>,
     <<"Brake Temperature", "c">>,
     <<"Pressure", "pa">>,
     <<"Temperature Left", "c">>,
     <<"Temperature Center", "c">>,
     <<"Temperature Right", "c">> >>

\* the wheel loop of CreateLoggingSession for one wheel: <<name, units, group>>
WheelCatalogue(wheel) ==
  [e \in 1..Len(kWheelCatalogue) |->
     <<kWheelCatalogue[e][1], kWheelCatalogue[e][2], kWheels[wheel + 1]>>]

\* the channels CreateLoggingSession constructs, in order: the entry of
\* channelID is kCatalogue[channelID + 1]
kCatalogue ==
  kNonWheelCatalogue \o WheelCatalogue(0) \o WheelCatalogue(1)
    \o WheelCatalogue(2) \o WheelCatalogue(3)

\* the keys the AddChannel calls of CreateLoggingSession insert under.
\* Session::AddChannel is an unordered_map::insert, which keeps the entry a
\* key already has: a key holds the first channel added under it.
kCatalogueKeys ==
  {ChannelKey(kCatalogue[e][1], kCatalogue[e][3]) : e \in 1..Len(kCatalogue)}

FirstAdded ==
  [key \in kCatalogueKeys |->
     CHOOSE e \in 1..Len(kCatalogue) :
       /\ ChannelKey(kCatalogue[e][1], kCatalogue[e][3]) = key
       /\ \A other \in 1..Len(kCatalogue) :
            ChannelKey(kCatalogue[other][1], kCatalogue[other][3]) = key => e <= other]

\* LoggingPlugin::CreateLoggingSession: the new mSession
CreateLoggingSession(interval) ==
  [NewSession EXCEPT !.mChannels =
     [key \in kCatalogueKeys |->
        LET e == FirstAdded[key]
        IN Channel(e - 1, kCatalogue[e][1], interval, kCatalogue[e][2], kCatalogue[e][3])]]

(***************************************************************************)
(* State.                                                                  *)
(*   plugin  the fields of the LoggingPlugin object; mConfiguration holds  *)
(*           the two options the engine reads                              *)
(*   calls   the functions the most recent host callback ran, in order     *)
(*   thrown  whether that callback ended by an exception reaching the host *)
(*   hist    what the host has done so far (read by no callback):          *)
(*           entered is whether EnterRealtime has been called with no      *)
(*           UpdateTelemetry since, first is whether the most recent       *)
(*           callback was the first UpdateTelemetry after an EnterRealtime,*)
(*           reported is <<phase>> of the most recent UpdateScoring and    *)
(*           <<>> before the first, step is the number of scoring updates  *)
(*           of the out-lap scenario the running session has received      *)
(*   session the Session a client of the OpenMotorsport library holds on   *)
(*           its own (NULL while the plug-in is the client)                *)
(*   outcome what the client's latest call to the library has come to      *)
(*   threads the worker threads that have been created and have not        *)
(*           returned, each with its position in LoggingThread             *)
(***************************************************************************)
VARIABLES plugin, calls, thrown, hist, session, outcome, threads

vars == <<plugin, calls, thrown, hist, session, outcome, threads>>

\* the running callback: the object, its call log, and whether it has thrown
Enter(name) == [p |-> plugin, calls |-> <<name>>, thrown |-> FALSE]

Log(w, name) == [w EXCEPT !.calls = Append(@, name)]

\* whether, and how often, a call log names a function
Called(log, name) == \E i \in DOMAIN log : log[i] = name

Count(log, name) == Cardinality({i \in DOMAIN log : log[i] = name})

(***************************************************************************)
(* The sampler.                                                            *)
(***************************************************************************)
\* the body of the wheel loop of SampleBlock: <<name, group, source>> per Write
WheelWrites(wheel) ==
  << <<"Suspension Deflection", kWheels[wheel + 1], "mSuspensionDeflection">>,
     <<"Rotation", kWheels[wheel + 1], "-mRotation">>,
     <<"Right Height", kWheels[wheel + 1], "mRideHeight">>,
     <<"Tire Load", kWheels[wheel + 1], "mTireLoad">>,
     <<"Lateral Force", kWheels[wheel + 1], "mLateralForce">>,
     <<"Brake Temperature", kWheels[wheel + 1], "mBrakeTemp">>,
     <<"Pressure", kWheels[wheel + 1], "mPressure">>,
     <<"Temperature Left", kWheels[wheel + 1], "mTemperature[0]">>,
     <<"Temperature Center", kWheels[wheel + 1], "mTemperature[1]">>,
     <<"Temperature Right", kWheels[wheel + 1], "mTemperature[2]">> >>

\* the Writes of one SampleBlock in code order: <<name, group, source>>
kSampleWrites ==
  << <<"Acceleration X", kGroupAcceleration, "mLocalAccel.x">>,
     <<"Acceleration Y", kGroupAcceleration, "mLocalAccel.y">>,
     <<"Acceleration Z", kGroupAcceleration, "mLocalAccel.z">>,
     <<"Speed", kGroupPosition, "speed">>,
     <<"Pitch", kGroupPosition, "pitch">>,
     <<"Roll", kGroupPosition, "roll">>,
     <<kChannelTime, kGroupPosition, "mTotalElapsed">>,
     <<kChannelDistance, kGroupPosition, "mCumulativeDistance">>,
     <<"Gear", kGroupDriver, "mGear">>,
     <<"Throttle", kGroupDriver, "mUnfilteredThrottle">>,
     <<"Brake", kGroupDriver, "mUnfilteredBrake">>,
     <<"Clutch", kGroupDriver, "mUnfilteredClutch">>,
     <<"Steering", kGroupDriver, "mUnfilteredSteering">>,
     <<"RPM", kGroupEngine, "mEngineRPM">>,
     <<"Clutch RPM", kGroupEngine, "mClutchRPM">>,
     <<"Fuel", kGroupEngine, "mFuel">>,
     <<"Overheating", kGroupEngine, "mOverheating">> >>
  \o WheelWrites(0) \o WheelWrites(1) \o WheelWrites(2) \o WheelWrites(3)

\* the value a Write of SampleBlock passes.  The frames of this model are at
\* rest and level with zero driver, engine and wheel data, so every value but
\* the time and the distance is 0.
SampleValue(source, p, frame) ==
  CASE source = "mTotalElapsed" -> SEC_TO_MS(p.mTotalElapsed)
    [] source = "mCumulativeDistance" -> p.mCumulativeDistance
    [] OTHER -> 0

\* the Writes of SampleBlock that go to the channel of a key, in code order
WritesTo ==
  [key \in {ChannelKey(kSampleWrites[e][1], kSampleWrites[e][2]) :
              e \in 1..Len(kSampleWrites)} |->
     SelectSeq([e \in 1..Len(kSampleWrites) |-> e],
               LAMBDA e : ChannelKey(kSampleWrites[e][1], kSampleWrites[e][2]) = key)]

\* the number of Writes that run: all of them, or those before the first
\* GetChannel that throws on an unregistered channel
WritesDone(s) ==
  LET bad == {e \in 1..Len(kSampleWrites) :
                ~HasChannel(s, kSampleWrites[e][1], kSampleWrites[e][2])}
  IN IF bad = {} THEN Len(kSampleWrites)
     ELSE (CHOOSE e \in bad : \A other \in bad : e <= other) - 1

\* the values the first n Writes append to the channel of a key, in order
ValuesFor(key, n, p, frame) ==
  IF key \notin DOMAIN WritesTo THEN <<>>
  ELSE LET mine == SelectSeq(WritesTo[key], LAMBDA e : e <= n)
       IN [j \in 1..Len(mine) |-> SampleValue(kSampleWrites[mine[j]][3], p, frame)]

\* the Writes of a SampleBlock, one after the other
WriteAll(w, frame) ==
  LET n == WritesDone(w.p.mSession)
  IN [w EXCEPT !.thrown = (n < Len(kSampleWrites)),
               !.p.mSession.mChannels =
                  [key \in DOMAIN @ |->
                     [@[key] EXCEPT !.mData = @ \o ValuesFor(key, n, w.p, frame)]]]

\* the Cartesian distance between two positions
Distance(a, b) ==
  sqrtf((a[1] - b[1]) * (a[1] - b[1]) + (a[2] - b[2]) * (a[2] - b[2])
        + (a[3] - b[3]) * (a[3] - b[3]))

\* SampleBlock that also records the elapsed time as a marker
SampleBlockMarks(w, frame) ==
  LET p == w.p
      dist == IF p.mHasPreviousPosition
                THEN p.mCumulativeDistance + Distance(p.mPreviousPosition, frame.mPos)
                ELSE p.mCumulativeDistance
      p1 == [p EXCEPT !.mCurrentLapNumber = frame.mLapNumber,
                      !.mCumulativeDistance = dist,
                      !.mPreviousPosition = frame.mPos,
                      !.mHasPreviousPosition = TRUE,
                      !.mSession = AddMarker(@, SEC_TO_MS(p.mTotalElapsed))]
  IN WriteAll([Log(w, "SampleBlock") EXCEPT !.p = p1], frame)

\* LoggingPlugin::SampleBlock
SampleBlock(w, frame) ==
  LET p == w.p
      dist == IF p.mHasPreviousPosition
                THEN p.mCumulativeDistance + Distance(p.mPreviousPosition, frame.mPos)
                ELSE p.mCumulativeDistance
      p1 == [p EXCEPT !.mCurrentLapNumber = frame.mLapNumber,
                      !.mCumulativeDistance = dist,
                      !.mPreviousPosition = frame.mPos,
                      !.mHasPreviousPosition = TRUE]
  IN WriteAll([Log(w, "SampleBlock") EXCEPT !.p = p1], frame)

(***************************************************************************)
(* Start and stop.                                                         *)
(***************************************************************************)
\* startLogging without the reset of mSavedMetaData
startLoggingKeepsSaved(w, frame) ==
  LET p1 == [w.p EXCEPT !.mCurrentSector = kSectorsSector1,
                        !.mTotalElapsed = 0,
                        !.mFirstLapET = 0,
                        !.mEnterLapNumber = frame.mLapNumber,
                        !.mCurrentLapNumber = frame.mLapNumber,
                        !.mTimeSinceLastSample = 0,
                        !.mIsLogging = TRUE,
                        !.mHasPreviousPosition = FALSE,
                        !.mPreviousPosition = <<0, 0, 0>>,
                        !.mCumulativeDistance = 0,
                        !.mSession = CreateLoggingSession(w.p.mSamplingInterval)]
  IN SampleBlock([Log(w, "startLogging") EXCEPT !.p = p1], frame)

\* startLogging without the reset of the distance and the previous position
startLoggingKeepsDistance(w, frame) ==
  LET p1 == [w.p EXCEPT !.mCurrentSector = kSectorsSector1,
                        !.mSavedMetaData = FALSE,
                        !.mTotalElapsed = 0,
                        !.mFirstLapET = 0,
                        !.mEnterLapNumber = frame.mLapNumber,
                        !.mCurrentLapNumber = frame.mLapNumber,
                        !.mTimeSinceLastSample = 0,
                        !.mIsLogging = TRUE,
                        !.mSession = CreateLoggingSession(w.p.mSamplingInterval)]
  IN SampleBlock([Log(w, "startLogging") EXCEPT !.p = p1], frame)

\* startLogging without the reset of the elapsed times
startLoggingKeepsElapsed(w, frame) ==
  LET p1 == [w.p EXCEPT !.mCurrentSector = kSectorsSector1,
                        !.mSavedMetaData = FALSE,
                        !.mFirstLapET = 0,
                        !.mEnterLapNumber = frame.mLapNumber,
                        !.mCurrentLapNumber = frame.mLapNumber,
                        !.mIsLogging = TRUE,
                        !.mHasPreviousPosition = FALSE,
                        !.mPreviousPosition = <<0, 0, 0>>,
                        !.mCumulativeDistance = 0,
                        !.mSession = CreateLoggingSession(w.p.mSamplingInterval)]
  IN SampleBlock([Log(w, "startLogging") EXCEPT !.p = p1], frame)

\* startLogging without the sample of the starting frame
startLoggingNoSample(w, frame) ==
  LET p1 == [w.p EXCEPT !.mCurrentSector = kSectorsSector1,
                        !.mSavedMetaData = FALSE,
                        !.mTotalElapsed = 0,
                        !.mFirstLapET = 0,
                        !.mEnterLapNumber = frame.mLapNumber,
                        !.mCurrentLapNumber = frame.mLapNumber,
                        !.mTimeSinceLastSample = 0,
                        !.mIsLogging = TRUE,
                        !.mHasPreviousPosition = FALSE,
                        !.mPreviousPosition = <<0, 0, 0>>,
                        !.mCumulativeDistance = 0,
                        !.mSession = CreateLoggingSession(w.p.mSamplingInterval)]
  IN [Log(w, "startLogging") EXCEPT !.p = p1]

\* LoggingPlugin::startLogging
startLogging(w, frame) ==
  LET p1 == [w.p EXCEPT !.mCurrentSector = kSectorsSector1,
                        !.mSavedMetaData = FALSE,
                        !.mTotalElapsed = 0,
                        !.mFirstLapET = 0,
                        !.mEnterLapNumber = frame.mLapNumber,
                        !.mCurrentLapNumber = frame.mLapNumber,
                        !.mTimeSinceLastSample = 0,
                        !.mIsLogging = TRUE,
                        !.mHasPreviousPosition = FALSE,
                        !.mPreviousPosition = <<0, 0, 0>>,
                        !.mCumulativeDistance = 0,
                        !.mSession = CreateLoggingSession(w.p.mSamplingInterval)]
  IN SampleBlock([Log(w, "startLogging") EXCEPT !.p = p1], frame)

\* Configuration::GetBool: the value of a boolean option.  The configuration
\* holds the values of the options as the engine reads them.
GetBool(configuration, key) == configuration[key]

\* saveSession without the require-one-lap test
saveSessionAnyLap(w, writeOk) ==
  IF writeOk
    THEN Log(Log(w, "saveSession"), "Session::Write")
    ELSE Log(Log(Log(w, "saveSession"), "Session::Write"), "log(LOG_ERROR)")

\* saveSession without the try/catch around Session::Write
saveSessionNoCatch(w, writeOk) ==
  IF /\ GetBool(w.p.mConfiguration, kConfigurationRequireOneLap)
     /\ (w.p.mCurrentLapNumber - w.p.mEnterLapNumber) < 1
    THEN Log(w, "saveSession")
    ELSE IF writeOk
           THEN Log(Log(w, "saveSession"), "Session::Write")
           ELSE [Log(Log(w, "saveSession"), "Session::Write") EXCEPT !.thrown = TRUE]

\* saveSession that writes again when Session::Write has failed
saveSessionRetry(w, writeOk) ==
  IF /\ GetBool(w.p.mConfiguration, kConfigurationRequireOneLap)
     /\ (w.p.mCurrentLapNumber - w.p.mEnterLapNumber) < 1
    THEN Log(w, "saveSession")
    ELSE IF writeOk
           THEN Log(Log(w, "saveSession"), "Session::Write")
           ELSE Log(Log(Log(Log(w, "saveSession"), "Session::Write"),
                        "log(LOG_ERROR)"), "Session::Write")

\* LoggingPlugin::saveSession; writeOk is whether Session::Write succeeds
\* (it throws a const char* on an I/O failure, caught here)
saveSession(w, writeOk) ==
  IF /\ GetBool(w.p.mConfiguration, kConfigurationRequireOneLap)
     /\ (w.p.mCurrentLapNumber - w.p.mEnterLapNumber) < 1
    THEN Log(w, "saveSession")
    ELSE IF writeOk
           THEN Log(Log(w, "saveSession"), "Session::Write")
           ELSE Log(Log(Log(w, "saveSession"), "Session::Write"), "log(LOG_ERROR)")

\* stopLogging without the reset of mEnterPhase
stopLoggingKeepsEntry(w, writeOk) ==
  LET w1 == [Log(w, "stopLogging") EXCEPT !.p.mIsLogging = FALSE]
      w2 == saveSession(w1, writeOk)
  IN [w2 EXCEPT !.p.mSession = NULL]

\* stopLogging that keeps the pointer to the session
stopLoggingKeepsSession(w, writeOk) ==
  LET w1 == [Log(w, "stopLogging") EXCEPT !.p.mIsLogging = FALSE]
      w2 == saveSession(w1, writeOk)
  IN [w2 EXCEPT !.p.mEnterPhase = kGamePhaseNotEnteredGame]

\* LoggingPlugin::stopLogging
stopLogging(w, writeOk) ==
  LET w1 == [Log(w, "stopLogging") EXCEPT !.p.mIsLogging = FALSE]
      w2 == saveSession(w1, writeOk)
  IN [w2 EXCEPT !.p.mSession = NULL,
                !.p.mEnterPhase = kGamePhaseNotEnteredGame]

\* LoggingPlugin::isCurrentlyLogging
isCurrentlyLogging(p) == p.mIsLogging

(***************************************************************************)
(* The sector/lap-time resolver and the metadata capture.                  *)
(***************************************************************************)
\* the sector-1 case with the whole lap time for the split
caseSector1WholeLap(w, vinfo) ==
  IF vinfo.mLastLapTime > 0
    THEN [Log(w, "Session::AddRelativeMarker") EXCEPT
            !.p.mSession = AddRelativeMarker(@, SEC_TO_MS(vinfo.mLastLapTime))]
    ELSE w

\* LoggingPlugin::saveSectorTime, case kSectorsSector1
caseSector1(w, vinfo) ==
  IF vinfo.mLastLapTime > 0
    THEN [Log(w, "Session::AddRelativeMarker") EXCEPT !.p.mSession =
            AddRelativeMarker(@, SEC_TO_MS(vinfo.mLastLapTime - vinfo.mLastSector2))]
    ELSE w

\* the sector-2 case with the split recorded as an absolute marker
caseSector2Absolute(w, vinfo) ==
  IF vinfo.mCurSector1 > 0
    THEN [Log(w, "Session::AddMarker") EXCEPT
            !.p.mSession = AddMarker(@, SEC_TO_MS(vinfo.mCurSector1))]
    ELSE [Log(w, "Session::AddMarker") EXCEPT
            !.p.mSession = AddMarker(@, SEC_TO_MS(w.p.mTotalElapsed))]

\* LoggingPlugin::saveSectorTime, case kSectorsSector2
caseSector2(w, vinfo) ==
  IF vinfo.mCurSector1 > 0
    THEN [Log(w, "Session::AddRelativeMarker") EXCEPT
            !.p.mSession = AddRelativeMarker(@, SEC_TO_MS(vinfo.mCurSector1))]
    ELSE [Log(w, "Session::AddMarker") EXCEPT
            !.p.mSession = AddMarker(@, SEC_TO_MS(w.p.mTotalElapsed))]

\* the sector-3 case without the else branch
caseSector3NoElse(w, vinfo) ==
  IF vinfo.mCurSector2 > 0
    THEN [Log(w, "Session::AddRelativeMarker") EXCEPT !.p.mSession =
            AddRelativeMarker(@, SEC_TO_MS(vinfo.mCurSector2 - vinfo.mCurSector1))]
    ELSE w

\* LoggingPlugin::saveSectorTime, case kSectorsSector3
caseSector3(w, vinfo) ==
  IF vinfo.mCurSector2 > 0
    THEN [Log(w, "Session::AddRelativeMarker") EXCEPT !.p.mSession =
            AddRelativeMarker(@, SEC_TO_MS(vinfo.mCurSector2 - vinfo.mCurSector1))]
    ELSE [Log(w, "Session::AddMarker") EXCEPT
            !.p.mSession = AddMarker(@, SEC_TO_MS(w.p.mTotalElapsed))]

\* LoggingPlugin::saveSectorTime (mCurrentSector is already the new sector)
saveSectorTime(w, scoring, vinfo) ==
  LET w1 == Log(w, "saveSectorTime")
  IN CASE w.p.mCurrentSector = kSectorsSector1 -> caseSector1(w1, vinfo)
       [] w.p.mCurrentSector = kSectorsSector2 -> caseSector2(w1, vinfo)
       [] w.p.mCurrentSector = kSectorsSector3 -> caseSector3(w1, vinfo)
       [] OTHER -> w1

\* LoggingPlugin::saveMetadata
saveMetadata(w, scoring, vinfo) ==
  [Log(w, "saveMetadata") EXCEPT
     !.p.mSession.mFullName = vinfo.mDriverName,
     !.p.mSession.mVehicleName = vinfo.mVehicleName,
     !.p.mSession.mTrackName = scoring.mTrackName,
     !.p.mSession.mDataSource = kDataSource,
     !.p.mSession.mVehicleCategory = vinfo.mVehicleClass,
     !.p.mSession.mNumSectors = krFactorNumberOfSectors,
     !.p.mSession.mComments = kSessions[scoring.mSession + 1]]

\* the index of the last entry flagged as the player, from index i on; 0 if
\* there is none
LastPlayer(mVehicle, i) ==
  LET players == {j \in i..Len(mVehicle) : mVehicle[j].mIsPlayer}
  IN IF players = {} THEN 0
     ELSE CHOOSE j \in players : \A other \in players : other <= j

\* the index of the first vehicle with mIsPlayer, 0 when there is none
RECURSIVE FirstPlayer(_, _)
FirstPlayer(mVehicle, i) ==
  IF i > Len(mVehicle) THEN 0
  ELSE IF mVehicle[i].mIsPlayer THEN i
  ELSE FirstPlayer(mVehicle, i + 1)

(***************************************************************************)
(* The host callbacks.                                                     *)
(***************************************************************************)
\* the start phases without the case label of full-course yellow
StartPhasesNoYellow == {kGamePhaseBeforeSession, kGamePhaseGreenFlag}

\* the phases at which UpdateTelemetry starts logging on entry
StartPhases ==
  {kGamePhaseBeforeSession, kGamePhaseGreenFlag, kGamePhaseFullCourseYellow}

\* LoggingPlugin::EnterRealtime
DoEnterRealtime(w) == [w EXCEPT !.p.mEnterPhase = kGamePhaseNotEnteredGame]

\* ExitRealtime that leaves the session running
DoExitRealtimeNoStop(w, writeOk) == w

\* LoggingPlugin::ExitRealtime
DoExitRealtime(w, writeOk) ==
  IF isCurrentlyLogging(w.p) THEN stopLogging(w, writeOk) ELSE w

\* the deferred start without the test of the lap-start time
ShouldStartNowAnyLap(p, frame) == p.mCurrentPhase >= kGamePhaseGreenFlag

\* LoggingPlugin::UpdateTelemetry: "Check if we should start logging now"
ShouldStartNow(p, frame) ==
  p.mCurrentPhase >= kGamePhaseGreenFlag /\ frame.mLapStartET > 0

\* UpdateTelemetry, from the out-lap check on, sampling every frame
TelemetryWhileLoggingEveryFrame(w, frame) ==
  LET ws == SampleBlock(w, frame)
  IN IF ws.thrown THEN ws
     ELSE [ws EXCEPT !.p.mTotalElapsed = @ + frame.mDeltaTime,
                     !.p.mTimeSinceLastSample = frame.mDeltaTime]

\* LoggingPlugin::UpdateTelemetry, from the out-lap check on
TelemetryWhileLogging(w, frame) ==
  LET w1 == IF frame.mLapNumber > w.p.mEnterLapNumber /\ w.p.mFirstLapET = 0
              THEN [Log(w, "Session::AddMarker") EXCEPT
                      !.p.mFirstLapET = w.p.mTotalElapsed,
                      !.p.mSession = AddMarker(@, SEC_TO_MS(w.p.mTotalElapsed))]
              ELSE w
      w2 == IF w1.p.mTimeSinceLastSample >= w1.p.mSamplingIntervalSeconds
              THEN LET ws == SampleBlock(w1, frame)
                   IN IF ws.thrown THEN ws
                      ELSE [ws EXCEPT !.p.mTimeSinceLastSample = 0]
              ELSE w1
  IN IF w2.thrown THEN w2
     ELSE [w2 EXCEPT !.p.mTotalElapsed = @ + frame.mDeltaTime,
                     !.p.mTimeSinceLastSample = @ + frame.mDeltaTime]

\* LoggingPlugin::UpdateTelemetry
DoUpdateTelemetry(w, frame) ==
  LET w1 == IF w.p.mEnterPhase = kGamePhaseNotEnteredGame
              THEN LET a == [w EXCEPT !.p.mEnterPhase = w.p.mCurrentPhase]
                   IN IF a.p.mEnterPhase \in StartPhases
                        THEN startLogging(a, frame)
                        ELSE a
              ELSE w
      w2 == IF w1.thrown \/ isCurrentlyLogging(w1.p) THEN w1
            ELSE IF ShouldStartNow(w1.p, frame)
                   THEN startLogging(w1, frame)
                   ELSE w1
  IN IF w2.thrown \/ ~isCurrentlyLogging(w2.p)
       THEN w2
       ELSE TelemetryWhileLogging(w2, frame)

\* LoggingPlugin::UpdateScoring
DoUpdateScoring(w, scoring, writeOk) ==
  LET w1 == IF scoring.mGamePhase < w.p.mCurrentPhase /\ isCurrentlyLogging(w.p)
              THEN stopLogging(w, writeOk)
              ELSE w
      w2 == [w1 EXCEPT !.p.mCurrentPhase = scoring.mGamePhase]
      i == FirstPlayer(scoring.mVehicle, 1)
  IN IF ~isCurrentlyLogging(w2.p) \/ i = 0
       THEN w2
       ELSE LET vinfo == scoring.mVehicle[i]
                w3 == IF ~w2.p.mSavedMetaData
                        THEN [saveMetadata(w2, scoring, vinfo) EXCEPT
                                !.p.mSavedMetaData = ~w2.p.mSavedMetaData]
                        ELSE w2
            IN IF vinfo.mSector # w3.p.mCurrentSector
                 THEN saveSectorTime([w3 EXCEPT !.p.mCurrentSector = vinfo.mSector],
                                     scoring, vinfo)
                 ELSE w3

(***************************************************************************)
(* The inputs of the host.                                                 *)
(***************************************************************************)
\* SamplingInterval option, in milliseconds
SamplingIntervals == {0, 1}

\* TelemInfoV2: the fields the engine reads (times in ticks)
Frames(laps, lapStarts, positions) ==
  [mLapNumber : laps, mDeltaTime : {0, 1}, mLapStartET : lapStarts,
   mPos : positions]

\* VehicleScoringInfoV2 of the player with the given sectors and timing
\* (<<mLastLapTime, mLastSector2>>, <<mCurSector1, mCurSector2>>, in ticks)
PlayerEntries(sectors, lastTimes, curTimes) ==
  { [mIsPlayer |-> TRUE, mDriverName |-> "Driver", mVehicleName |-> "Car",
     mVehicleClass |-> "Class", mSector |-> sector,
     mLastLapTime |-> last[1], mLastSector2 |-> last[2],
     mCurSector1 |-> cur[1], mCurSector2 |-> cur[2]] :
       sector \in sectors, last \in lastTimes, cur \in curTimes }

Sectors == {kSectorsSector1, kSectorsSector2, kSectorsSector3}

\* an out-lap: no lap and no sector has been timed
OutLapEntries == PlayerEntries(Sectors, {<<0, 0>>}, {<<0, 0>>})

\* any lap: a lap time and sector splits may be known
LastLapTimes == {<<0, 0>>, <<15, 8>>}
CurSectorTimes == {<<0, 0>>, <<3, 0>>, <<3, 8>>}
TimedEntries == PlayerEntries(Sectors, LastLapTimes, CurSectorTimes)

OtherEntry ==
  [mIsPlayer |-> FALSE, mDriverName |-> "Rival", mVehicleName |-> "Other Car",
   mVehicleClass |-> "Other Class", mSector |-> kSectorsSector2,
   mLastLapTime |-> 15, mLastSector2 |-> 8, mCurSector1 |-> 3, mCurSector2 |-> 8]

\* ScoringInfoV2 with the given phases and entries of the player: the player
\* is absent, or follows another vehicle
Scorings(phases, entries) ==
  [mGamePhase : phases, mSession : {kSessionRace}, mTrackName : {"Track"},
   mVehicle : {<<OtherEntry>>} \cup {<<OtherEntry, v>> : v \in entries}]

GamePhases ==
  {kGamePhaseBeforeSession, kGamePhaseFormationLap, kGamePhaseGreenFlag,
   kGamePhaseFullCourseYellow, kGamePhaseSessionOver}

\* The values of the phase fields (unsigned char) that no code has assigned.
\* mEnterPhase is only compared with kGamePhaseNotEnteredGame before it is
\* assigned: it is that value or another one.  mCurrentPhase is copied to
\* mEnterPhase, compared with kGamePhaseGreenFlag and with the reported phase:
\* it is a start phase below green, a start phase from green on, another
\* phase below green, or a value above every phase.
IndeterminateEnterPhases == {kGamePhaseNotEnteredGame, 255}

IndeterminateCurrentPhases ==
  {kGamePhaseBeforeSession, kGamePhaseFormationLap, kGamePhaseGreenFlag, 255}

(***************************************************************************)
(* The state machine.                                                      *)
(***************************************************************************)
\* the LoggingPlugin object as Startup leaves it
StartupPlugin(interval, oneLap, enterPhase, currentPhase) ==
  [mSession |-> NULL,
   mIsLogging |-> FALSE,
   mConfiguration |-> [SamplingInterval |-> interval,
                       RequireOneLap |-> oneLap],
   mSamplingInterval |-> interval,
   mSamplingIntervalSeconds |-> MS_TO_SEC(interval),
   mEnterPhase |-> enterPhase,
   mCurrentPhase |-> currentPhase,
   mCurrentSector |-> 0,
   mSavedMetaData |-> FALSE,
   mTotalElapsed |-> 0,
   mFirstLapET |-> 0,
   mEnterLapNumber |-> 0,
   mCurrentLapNumber |-> 0,
   mTimeSinceLastSample |-> 0,
   mHasPreviousPosition |-> FALSE,
   mPreviousPosition |-> <<0, 0, 0>>,
   mCumulativeDistance |-> 0]

\* LoggingPlugin::Startup with the given configuration.  The constructor
\* initialises no field: mEnterPhase and mCurrentPhase are indeterminate; the
\* other fields are assigned by startLogging before they are read.
Startup(intervals, oneLaps) ==
  /\ \E interval \in intervals, oneLap \in oneLaps,
        enterPhase \in IndeterminateEnterPhases,
        currentPhase \in IndeterminateCurrentPhases :
       plugin = StartupPlugin(interval, oneLap, enterPhase, currentPhase)
  /\ calls = <<"Startup">>
  /\ thrown = FALSE
  /\ hist = [entered |-> FALSE, first |-> FALSE, reported |-> <<>>, step |-> 0]
  /\ session = NULL
  /\ outcome = NULL
  /\ threads = {}

\* the number of SampleBlocks the session holds
SampleCount(s) == Len(s.mChannels[ChannelKey("Speed", kGroupPosition)].mData)

\* the running session is within the bounds of the model; the host delivers
\* no callback that takes it beyond them
WithinBounds ==
  plugin.mIsLogging =>
    /\ SampleCount(plugin.mSession) <= MaxSamples
    /\ Len(plugin.mSession.mMarkers) <= MaxMarkers
    /\ plugin.mTotalElapsed <= MaxElapsed

Return(w) ==
  /\ calls' = w.calls
  /\ thrown' = w.thrown
  /\ plugin' = w.p
  /\ UNCHANGED <<session, outcome, threads>>

EnterRealtime ==
  /\ Return(DoEnterRealtime(Enter("EnterRealtime")))
  /\ hist' = [hist EXCEPT !.entered = TRUE, !.first = FALSE]

ExitStep(writeOk) ==
  /\ Return(DoExitRealtime(Enter("ExitRealtime"), writeOk))
  /\ hist' = [hist EXCEPT !.first = FALSE]

ExitRealtime == \E writeOk \in BOOLEAN : ExitStep(writeOk)

TelemetryStep(frame) ==
  /\ Return(DoUpdateTelemetry(Enter("UpdateTelemetry"), frame))
  /\ hist' = [hist EXCEPT !.entered = FALSE, !.first = hist.entered,
                          !.step = IF Called(calls', "startLogging") THEN 0 ELSE @]

ScoringStep(scoring, writeOk) ==
  /\ Return(DoUpdateScoring(Enter("UpdateScoring"), scoring, writeOk))
  /\ hist' = [hist EXCEPT !.first = FALSE, !.reported = <<scoring.mGamePhase>>]

TelemetryOf(frames) ==
  \E frame \in frames :
    /\ TelemetryStep(frame)
    /\ WithinBounds'

ScoringOf(scorings) ==
  \E scoring \in scorings, writeOk \in BOOLEAN :
    /\ ScoringStep(scoring, writeOk)
    /\ WithinBounds'

(***************************************************************************)
(* Spec: the recording state machine on an out-lap, with SamplingInterval  *)
(* 1, with and without the require-one-lap policy.                         *)
(***************************************************************************)
Init == Startup({1}, BOOLEAN)

\* the lap numbers of the frames
LapNumbers == {0, 1}

OutLapFrames == Frames(LapNumbers, {0, 1}, {<<3, 4, 0>>})

UpdateTelemetry == TelemetryOf(OutLapFrames)

UpdateScoring == ScoringOf(Scorings(GamePhases, OutLapEntries))

Next ==
  \/ EnterRealtime
  \/ ExitRealtime
  \/ UpdateTelemetry
  \/ UpdateScoring

Spec == Init /\ [][Next]_vars

(***************************************************************************)
(* SpecTimed: the sector resolver on timed laps under green, under every   *)
(* sampling interval.                                                      *)
(***************************************************************************)
InitTimed == Startup(SamplingIntervals, {FALSE})

TimedFrames == Frames({0}, {1}, {<<3, 4, 0>>})

TimedTelemetry == TelemetryOf(TimedFrames)

TimedScoring == ScoringOf(Scorings({kGamePhaseGreenFlag}, TimedEntries))

NextTimed ==
  \/ EnterRealtime
  \/ ExitRealtime
  \/ TimedTelemetry
  \/ TimedScoring

SpecTimed == InitTimed /\ [][NextTimed]_vars

(***************************************************************************)
(* SpecOutLap: an out-lap.  The scoring updates a session receives report  *)
(* the player in sectors 1,1,2,2,0,0,1 under green, with no lap and no     *)
(* sector timed; the frames stay on the lap of entry.                      *)
(***************************************************************************)
OutLapSectors ==
  <<kSectorsSector1, kSectorsSector1, kSectorsSector2, kSectorsSector2,
    kSectorsSector3, kSectorsSector3, kSectorsSector1>>

\* the scoring update that reports the player in the given sector
OutLapScoringInfo(sector) ==
  CHOOSE scoring \in Scorings({kGamePhaseGreenFlag},
                              PlayerEntries({sector}, {<<0, 0>>}, {<<0, 0>>})) :
    Len(scoring.mVehicle) = 2

\* the next scoring update of the scenario; one that arrives while no session
\* is logged is not part of a session's sequence
OutLapStep(writeOk) ==
  LET k == IF plugin.mIsLogging THEN hist.step + 1 ELSE 1
  IN /\ k <= Len(OutLapSectors)
     /\ Return(DoUpdateScoring(Enter("UpdateScoring"),
                               OutLapScoringInfo(OutLapSectors[k]), writeOk))
     /\ hist' = [hist EXCEPT !.first = FALSE,
                             !.reported = <<kGamePhaseGreenFlag>>,
                             !.step = IF plugin.mIsLogging THEN k ELSE @]

InitOutLap == Startup({1}, {FALSE})

OutLapTelemetry == TelemetryOf(Frames({0}, {0, 1}, {<<3, 4, 0>>}))

OutLapScoring ==
  \E writeOk \in BOOLEAN : OutLapStep(writeOk) /\ WithinBounds'

NextOutLap ==
  \/ EnterRealtime
  \/ ExitRealtime
  \/ OutLapTelemetry
  \/ OutLapScoring

SpecOutLap == InitOutLap /\ [][NextOutLap]_vars

(***************************************************************************)
(* SpecMeta: the metadata capture.  Under green, the scoring updates differ *)
(* in the driver, the vehicle, its class, the track and the session type;  *)
(* sessions are stopped by ExitRealtime and started again.                 *)
(***************************************************************************)
\* the player's entry under another driver, vehicle and class
MetaEntries ==
  LET entries == PlayerEntries({kSectorsSector1, kSectorsSector2},
                               {<<0, 0>>}, {<<0, 0>>})
  IN entries \cup
       { [v EXCEPT !.mDriverName = "Driver B", !.mVehicleName = "Car B",
                   !.mVehicleClass = "Class B"] : v \in entries }

\* the scoring updates, on either of two tracks, in testing or in a race
MetaScorings ==
  { [scoring EXCEPT !.mTrackName = track, !.mSession = type] :
      scoring \in Scorings({kGamePhaseGreenFlag}, MetaEntries),
      track \in {"Track", "Track B"}, type \in {0, kSessionRace} }

InitMeta == Startup({1}, {FALSE})

MetaTelemetry == TelemetryOf(TimedFrames)

MetaScoring == ScoringOf(MetaScorings)

NextMeta ==
  \/ EnterRealtime
  \/ ExitRealtime
  \/ MetaTelemetry
  \/ MetaScoring

SpecMeta == InitMeta /\ [][NextMeta]_vars

(***************************************************************************)
(* SpecDistance: the cumulative distance.  The car is at the origin or at  *)
(* (3, 4, 0), under every sampling interval.  hist also records the        *)
(* positions of the frames sampled into the running session.               *)
(***************************************************************************)
DistancePositions == {<<0, 0, 0>>, <<3, 4, 0>>}

DistanceFrames == Frames(LapNumbers, {1}, DistancePositions)

InitDistance ==
  /\ \E interval \in SamplingIntervals,
        enterPhase \in IndeterminateEnterPhases,
        currentPhase \in IndeterminateCurrentPhases :
       plugin = StartupPlugin(interval, FALSE, enterPhase, currentPhase)
  /\ calls = <<"Startup">>
  /\ thrown = FALSE
  /\ hist = [entered |-> FALSE, first |-> FALSE, reported |-> <<>>, step |-> 0,
             positions |-> <<>>]
  /\ session = NULL
  /\ outcome = NULL
  /\ threads = {}

DistanceTelemetry ==
  \E frame \in DistanceFrames :
    /\ Return(DoUpdateTelemetry(Enter("UpdateTelemetry"), frame))
    /\ hist' = [hist EXCEPT !.positions =
                  (IF Called(calls', "startLogging") THEN <<>> ELSE @)
                    \o [j \in 1..Count(calls', "SampleBlock") |-> frame.mPos]]
    /\ WithinBounds'

DistanceScoring ==
  ScoringOf(Scorings({kGamePhaseGreenFlag},
                     PlayerEntries({kSectorsSector1}, {<<0, 0>>}, {<<0, 0>>})))

NextDistance ==
  \/ EnterRealtime
  \/ ExitRealtime
  \/ DistanceTelemetry
  \/ DistanceScoring

SpecDistance == InitDistance /\ [][NextDistance]_vars

(***************************************************************************)
(* SpecPlayers: the scoring updates list one or two vehicles, of which     *)
(* none, one or both are flagged as the player, in either order.           *)
(***************************************************************************)
\* the first player, in sector 2, and a second player, in sector 3
PlayerA ==
  CHOOSE v \in PlayerEntries({kSectorsSector2}, {<<15, 8>>}, {<<3, 0>>}) : TRUE

PlayerB ==
  [PlayerA EXCEPT !.mDriverName = "Driver B", !.mVehicleName = "Car B",
                  !.mVehicleClass = "Class B", !.mSector = kSectorsSector3,
                  !.mCurSector2 = 8]

PlayersScorings ==
  [mGamePhase : {kGamePhaseBeforeSession, kGamePhaseGreenFlag},
   mSession : {kSessionRace}, mTrackName : {"Track"},
   mVehicle : {<<OtherEntry>>, <<OtherEntry, OtherEntry>>,
               <<OtherEntry, PlayerA>>, <<PlayerA, OtherEntry>>,
               <<PlayerA, PlayerB>>, <<PlayerB, PlayerA>>}]

InitPlayers == Startup({1}, {FALSE})

PlayersTelemetry == TelemetryOf(TimedFrames)

PlayersScoring == ScoringOf(PlayersScorings)

NextPlayers ==
  \/ EnterRealtime
  \/ ExitRealtime
  \/ PlayersTelemetry
  \/ PlayersScoring

SpecPlayers == InitPlayers /\ [][NextPlayers]_vars

(***************************************************************************)
(* SpecLaps: lap boundaries.  The require-one-lap policy is on, the        *)
(* sampling interval is 1 ms, the frames report lap 0 or 1 and the scoring *)
(* updates every sector, with and without a last lap time.  hist also      *)
(* records, for the latest session: whether an admitted frame reported a   *)
(* lap above the entry lap, the out-lap markers UpdateTelemetry recorded,  *)
(* the sector the previous scoring update reported for the player, and     *)
(* which callbacks recorded a marker for the lap boundary the player is    *)
(* at.                                                                     *)
(***************************************************************************)
\* what hist records of a session that has just started
NoLaps == [lapSeen |-> FALSE, outLaps |-> 0, scored |-> <<>>, crossing |-> {}]

InitLaps ==
  /\ \E enterPhase \in IndeterminateEnterPhases,
        currentPhase \in IndeterminateCurrentPhases :
       plugin = StartupPlugin(1, TRUE, enterPhase, currentPhase)
  /\ calls = <<"Startup">>
  /\ thrown = FALSE
  /\ hist = [entered |-> FALSE, first |-> FALSE, reported |-> <<>>, step |-> 0,
             lapSeen |-> FALSE, outLaps |-> 0, scored |-> <<>>, crossing |-> {}]
  /\ session = NULL
  /\ outcome = NULL
  /\ threads = {}

LapsWithinBounds ==
  plugin.mIsLogging =>
    /\ SampleCount(plugin.mSession) <= MaxSamples
    /\ Len(plugin.mSession.mMarkers) <= MaxCrossingMarkers
    /\ plugin.mTotalElapsed <= MaxElapsed

LapsFrames == Frames(LapNumbers, {1}, {<<3, 4, 0>>})

LapsTelemetry ==
  \E frame \in LapsFrames :
    /\ Return(DoUpdateTelemetry(Enter("UpdateTelemetry"), frame))
    /\ LET started == Called(calls', "startLogging")
           marks == Count(calls', "Session::AddMarker")
           h == IF started THEN NoLaps ELSE hist
       IN hist' = [hist EXCEPT
            !.entered = FALSE,
            !.first = hist.entered,
            !.step = IF started THEN 0 ELSE @,
            !.lapSeen = h.lapSeen \/ (/\ plugin'.mIsLogging
                                      /\ frame.mLapNumber > plugin'.mEnterLapNumber),
            !.outLaps = h.outLaps + marks,
            !.scored = h.scored,
            !.crossing = h.crossing \cup
                           (IF marks > 0 THEN {"UpdateTelemetry"} ELSE {})]
    /\ LapsWithinBounds'

LapsScorings ==
  Scorings({kGamePhaseGreenFlag},
           PlayerEntries(Sectors, LastLapTimes, {<<0, 0>>}))

LapsScoring ==
  \E scoring \in LapsScorings, writeOk \in BOOLEAN :
    /\ Return(DoUpdateScoring(Enter("UpdateScoring"), scoring, writeOk))
    /\ LET i == FirstPlayer(scoring.mVehicle, 1)
           seen == plugin'.mIsLogging /\ i # 0
           marked == \/ Called(calls', "Session::AddMarker")
                     \/ Called(calls', "Session::AddRelativeMarker")
       IN hist' = [hist EXCEPT
            !.first = FALSE,
            !.reported = <<scoring.mGamePhase>>,
            !.scored = IF seen THEN <<scoring.mVehicle[i].mSector>> ELSE @,
            !.crossing =
               IF ~seen THEN @
               ELSE IF scoring.mVehicle[i].mSector # kSectorsSector1 THEN {}
               ELSE IF marked THEN @ \cup {"saveSectorTime"}
               ELSE @]
    /\ LapsWithinBounds'

NextLaps ==
  \/ EnterRealtime
  \/ ExitRealtime
  \/ LapsTelemetry
  \/ LapsScoring

SpecLaps == InitLaps /\ [][NextLaps]_vars

(***************************************************************************)
(* SpecSession: a client of the OpenMotorsport library.  It builds a       *)
(* session the way CreateLoggingSession does, from a catalogue of its own, *)
(* then looks channels up, writes values, adds markers, sets the metadata  *)
(* and writes the archive, under every failure of the zip library.         *)
(***************************************************************************)
\* the channels of the client: <<name, sampleInterval, units, group>>; one
\* with an interval and units, in a group, and one with the defaults of the
\* constructor
ClientChannels ==
  { <<"Temperature/Tire", 1, "c", "Left">>,
    <<"Speed", kChannelVariableSampleInterval, kChannelNoUnits, kChannelNoGroup>> }

\* the names and groups the client looks up
ClientNames == {"Temperature/Tire", "Temperature", "Speed"}

ClientGroups == {"Left", "Tire/Left", kChannelNoGroup}

\* the catalogues of at most MaxChannels channels
ClientCatalogues ==
  UNION { [1..n -> ClientChannels] : n \in 0..MaxChannels }

\* the client's session: Session(), then AddChannel(Channel(channelID++, ...))
\* for each channel of the catalogue, as CreateLoggingSession does
RECURSIVE CreateSession(_, _)
CreateSession(catalogue, n) ==
  IF n = 0 THEN NewSession
  ELSE AddChannel(CreateSession(catalogue, n - 1),
                  Channel(n - 1, catalogue[n][1], catalogue[n][2],
                          catalogue[n][3], catalogue[n][4]))

\* the orders in which an unordered_map may iterate over the channels
IterationOrders(s) ==
  LET keys == DOMAIN s.mChannels
  IN { order \in [1..Cardinality(keys) -> keys] :
         \A i, j \in DOMAIN order : order[i] = order[j] => i = j }

\* what a call of the client has come to
Outcome(op, args, throws, value) ==
  [op |-> op, args |-> args, throws |-> throws, value |-> value]

InitSession ==
  /\ \E catalogue \in ClientCatalogues :
       session = CreateSession(catalogue, Len(catalogue))
  /\ outcome = Outcome("Session", <<>>, <<>>, <<>>)
  /\ plugin = NULL
  /\ calls = <<>>
  /\ thrown = FALSE
  /\ hist = NULL
  /\ threads = {}

\* the session is within the bounds of the model
SessionWithinBounds ==
  /\ \A key \in DOMAIN session.mChannels :
       Len(session.mChannels[key].mData) <= MaxSamples
  /\ Len(session.mMarkers) <= MaxMarkers

ClientGetChannel ==
  /\ \E channelName \in ClientNames, group \in ClientGroups :
       LET got == GetChannel(session, channelName, group)
       IN /\ session' = got.s
          /\ outcome' = Outcome("GetChannel", <<channelName, group>>,
                                got.throws, got.channel)
  /\ UNCHANGED <<plugin, calls, thrown, hist, threads>>

\* the client writes to its channels; the value is the number of the sample
ClientBufferWrite ==
  /\ \E channel \in ClientChannels :
       LET channelName == channel[1]
           group == channel[4]
           key == ChannelKey(channelName, group)
           value == IF key \in DOMAIN session.mChannels
                      THEN Len(session.mChannels[key].mData) + 1
                      ELSE 1
           got == BufferWrite(session, channelName, group, value)
       IN /\ session' = got.s
          /\ outcome' = Outcome("DataBuffer::Write", <<channelName, group>>,
                                got.throws, got.channel)
  /\ SessionWithinBounds'
  /\ UNCHANGED <<plugin, calls, thrown, hist, threads>>

ClientAddMarker ==
  /\ \E marker \in {1, 2}, relative \in BOOLEAN :
       /\ session' = IF relative THEN AddRelativeMarker(session, marker)
                                 ELSE AddMarker(session, marker)
       /\ outcome' = Outcome(IF relative THEN "AddRelativeMarker" ELSE "AddMarker",
                             <<marker>>, <<>>, <<>>)
  /\ SessionWithinBounds'
  /\ UNCHANGED <<plugin, calls, thrown, hist, threads>>

\* the setters, as saveMetadata calls them
ClientSetMetadata ==
  /\ \E category \in {kSessionNoVehicleCategory, "Class"} :
       session' = [session EXCEPT !.mFullName = "Driver",
                                  !.mVehicleName = "Car",
                                  !.mTrackName = "Track",
                                  !.mDataSource = kDataSource,
                                  !.mVehicleCategory = category,
                                  !.mNumSectors = krFactorNumberOfSectors,
                                  !.mComments = kSessions[kSessionRace + 1]]
  /\ outcome' = Outcome("Set", <<>>, <<>>, <<>>)
  /\ UNCHANGED <<plugin, calls, thrown, hist, threads>>

ClientWrite ==
  /\ \E order \in IterationOrders(session),
        fails \in {""} \cup {kZipSteps[i] : i \in DOMAIN kZipSteps} :
       LET written == Write(session, order, fails)
       IN outcome' = Outcome("Write", <<fails>>, written.throws, written.archive)
  /\ UNCHANGED <<session, plugin, calls, thrown, hist, threads>>

NextSession ==
  \/ ClientGetChannel
  \/ ClientBufferWrite
  \/ ClientAddMarker
  \/ ClientSetMetadata
  \/ ClientWrite

SpecSession == InitSession /\ [][NextSession]_vars

(***************************************************************************)
(* The threaded engine: the second LoggingPlugin of the source, which      *)
(* queues the frames and samples them on a worker thread.  A host callback *)
(* is one step.  A worker takes a step at its test of the DataQueue, at    *)
(* each section of SampleBlock (the groups before the wheel loop, and the  *)
(* wheel loop) and at the end of its Sleep; the steps are interleaved      *)
(* sequentially consistently.  A pointer is <<>> when NULL and <<object>>  *)
(* otherwise.                                                              *)
(***************************************************************************)
\* CreateLoggingSession (threaded), the channels before the wheel loop
kThreadedNonWheelCatalogue ==
  << <<"Speed", "kph", kGroupPosition>>,
     <<"Acceleration X", "g", kGroupPosition>>,
     <<"Acceleration Y", "g", kGroupPosition>>,
     <<"Acceleration Z", "g", kGroupPosition>>,
     <<"Pitch", "deg", kGroupPosition>>,
     <<"Roll", "deg", kGroupPosition>>,
     <<"Gear", "gear", kGroupDriver>>,
     <<"Throttle", "%", kGroupDriver>>,
     <<"Brake", "%", kGroupDriver>>,
     <<"Clutch", "%", kGroupDriver>>,
     <<"Steering", "%", kGroupDriver>>,
     <<"RPM", "rpm", kGroupEngine>>,
     <<"Clutch RPM", "rpm", kGroupEngine>>,
     <<"Fuel", "l", kGroupEngine>>,
     <<"Overheating", "boolean", kGroupEngine>> >>

kThreadedCatalogue ==
  kThreadedNonWheelCatalogue \o WheelCatalogue(0) \o WheelCatalogue(1)
    \o WheelCatalogue(2) \o WheelCatalogue(3)

kThreadedKeys ==
  {ChannelKey(kThreadedCatalogue[e][1], kThreadedCatalogue[e][3]) :
     e \in 1..Len(kThreadedCatalogue)}

\* the first channel added under a key (AddChannel keeps it)
ThreadedFirstAdded ==
  [key \in kThreadedKeys |->
     CHOOSE e \in 1..Len(kThreadedCatalogue) :
       /\ ChannelKey(kThreadedCatalogue[e][1], kThreadedCatalogue[e][3]) = key
       /\ \A other \in 1..Len(kThreadedCatalogue) :
            ChannelKey(kThreadedCatalogue[other][1], kThreadedCatalogue[other][3]) = key
            => e <= other]

\* LoggingPlugin::CreateLoggingSession (threaded): the new Session
CreateLoggingSessionThreaded(interval) ==
  [NewSession EXCEPT !.mChannels =
     [key \in kThreadedKeys |->
        LET e == ThreadedFirstAdded[key]
        IN Channel(e - 1, kThreadedCatalogue[e][1], interval,
                   kThreadedCatalogue[e][2], kThreadedCatalogue[e][3])]]

\* SampleBlock (threaded), the body of the wheel loop: <<name, group>> per Write
ThreadedWheelWrites(wheel) ==
  << <<"Rotation", kWheels[wheel + 1]>>,
     <<"Rotation", kWheels[wheel + 1]>>,
     <<"Right Height", kWheels[wheel + 1]>>,
     <<"Tire Load", kWheels[wheel + 1]>>,
     <<"Lateral Force", kWheels[wheel + 1]>>,
     <<"Brake Temperature", kWheels[wheel + 1]>>,
     <<"Pressure", kWheels[wheel + 1]>>,
     <<"Temperature Left", kWheels[wheel + 1]>>,
     <<"Temperature Center", kWheels[wheel + 1]>>,
     <<"Temperature Right", kWheels[wheel + 1]>> >>

\* SampleBlock (threaded): the Writes of each section, in code order: the
\* position, driver and engine groups, then the wheel loop
kThreadedSections ==
  << << <<"Speed", kGroupPosition>>, <<"Acceleration X", kGroupPosition>>,
        <<"Acceleration Y", kGroupPosition>>, <<"Acceleration Z", kGroupPosition>>,
        <<"Pitch", kGroupPosition>>, <<"Roll", kGroupPosition>>,
        <<"Gear", kGroupDriver>>, <<"Throttle", kGroupDriver>>,
        <<"Brake", kGroupDriver>>, <<"Clutch", kGroupDriver>>,
        <<"Steering", kGroupDriver>>,
        <<"RPM", kGroupEngine>>, <<"Clutch RPM", kGroupEngine>>,
        <<"Fuel", kGroupEngine>>, <<"Overheating", kGroupEngine>> >>,
     ThreadedWheelWrites(0) \o ThreadedWheelWrites(1)
       \o ThreadedWheelWrites(2) \o ThreadedWheelWrites(3) >>

\* the Writes of a section that go to the channel of a key
WritesOfSection(k, key) ==
  Cardinality({e \in 1..Len(kThreadedSections[k]) :
                 ChannelKey(kThreadedSections[k][e][1], kThreadedSections[k][e][2]) = key})

\* a section of SampleBlock (threaded) on a session.  The frames are at rest
\* with zero driver, engine and wheel data: every value written is 0.
SampleSection(s, k) ==
  [s EXCEPT !.mChannels =
     [key \in DOMAIN @ |->
        [@[key] EXCEPT !.mData = @ \o [j \in 1..WritesOfSection(k, key) |-> 0]]]]

\* (int) of a float of seconds, in ticks: the argument of Session::AddMarker
SecondsToInt(x) == TruncDiv(x, 1000 * TicksPerMs)

\* the running callback of the threaded engine: the object and the statics,
\* the call log, whether it has thrown, and the threads it has created
EnterThreaded(name) ==
  [p |-> plugin, calls |-> <<name>>, thrown |-> FALSE, created |-> 0]

\* LoggingPlugin::isCurrentlyLogging (threaded)
isCurrentlyLoggingThreaded(p) == ~(p.DataQueue = <<>>)

\* LoggingPlugin::startLogging (threaded)
startLoggingThreaded(w) ==
  [Log(w, "startLogging") EXCEPT
     !.p.mCurrentSector = kSectorsSector1,
     !.p.mSavedMetaData = FALSE,
     !.p.mCurrentLapET = 0,
     !.p.DataQueue = << <<>> >>,
     !.p.Session = CreateLoggingSessionThreaded(w.p.mSamplingInterval),
     !.created = @ + 1]

\* LoggingPlugin::saveSession (threaded): Session::Write with no try
saveSessionThreaded(w, writeOk) ==
  [Log(Log(w, "saveSession"), "Session::Write") EXCEPT !.thrown = ~writeOk]

\* LoggingPlugin::stopLogging (threaded)
stopLoggingThreaded(w, writeOk) ==
  LET w1 == saveSessionThreaded(Log(w, "stopLogging"), writeOk)
  IN IF w1.thrown THEN w1
     ELSE [w1 EXCEPT !.p.Session = NULL,
                     !.p.DataQueue = <<>>,
                     !.p.mEnterPhase = kGamePhaseNotEnteredGame]

\* LoggingPlugin::EnterRealtime (threaded)
DoEnterRealtimeThreaded(w) ==
  [w EXCEPT !.p.mEnterPhase = kGamePhaseNotEnteredGame]

\* LoggingPlugin::ExitRealtime (threaded)
DoExitRealtimeThreaded(w, writeOk) ==
  IF isCurrentlyLoggingThreaded(w.p) THEN stopLoggingThreaded(w, writeOk) ELSE w

\* LoggingPlugin::UpdateTelemetry (threaded)
DoUpdateTelemetryThreaded(w, frame) ==
  LET w1 == IF w.p.mEnterPhase = kGamePhaseNotEnteredGame
              THEN LET a == [w EXCEPT !.p.mEnterPhase = w.p.mCurrentPhase]
                   IN IF a.p.mEnterPhase \in StartPhases
                        THEN startLoggingThreaded(a)
                        ELSE a
              ELSE w
      w2 == IF isCurrentlyLoggingThreaded(w1.p) THEN w1
            ELSE IF ShouldStartNow(w1.p, frame)
                   THEN startLoggingThreaded(w1)
                   ELSE w1
  IN IF ~isCurrentlyLoggingThreaded(w2.p)
       THEN w2
       ELSE [Log(w2, "push_front") EXCEPT !.p.DataQueue[1] = <<frame>> \o @]

\* LoggingPlugin::saveSectorTime (threaded); mCurrentSector is the new sector
saveSectorTimeThreaded(w, scoring, vinfo) ==
  LET w1 == Log(w, "saveSectorTime")
      relative(x) == [Log(w1, "Session::AddRelativeMarker") EXCEPT
                        !.p.Session = AddRelativeMarker(@, SecondsToInt(x))]
      absolute(x) == [Log(w1, "Session::AddMarker") EXCEPT
                        !.p.Session = AddMarker(@, SecondsToInt(x))]
  IN CASE w.p.mCurrentSector = kSectorsSector1 ->
            IF vinfo.mLastLapTime > 0
              THEN relative(vinfo.mLastLapTime - vinfo.mLastSector2)
              ELSE absolute(vinfo.mLapStartET)
       [] w.p.mCurrentSector = kSectorsSector2 ->
            IF vinfo.mCurSector1 > 0
              THEN relative(vinfo.mCurSector1)
              ELSE absolute(scoring.mCurrentET - vinfo.mLapStartET)
       [] w.p.mCurrentSector = kSectorsSector3 ->
            IF vinfo.mCurSector2 > 0
              THEN relative(vinfo.mCurSector2 - vinfo.mCurSector1)
              ELSE absolute(scoring.mCurrentET - vinfo.mLapStartET)
       [] OTHER -> w1

\* LoggingPlugin::saveMetadata (threaded)
saveMetadataThreaded(w, scoring, vinfo) ==
  [Log(w, "saveMetadata") EXCEPT
     !.p.Session.mFullName = vinfo.mDriverName,
     !.p.Session.mVehicleName = vinfo.mVehicleName,
     !.p.Session.mTrackName = scoring.mTrackName,
     !.p.Session.mDataSource = kDataSource,
     !.p.Session.mVehicleCategory = vinfo.mVehicleClass,
     !.p.Session.mNumSectors = krFactorNumberOfSectors]

\* LoggingPlugin::UpdateScoring (threaded)
DoUpdateScoringThreaded(w, scoring, writeOk) ==
  LET w1 == IF /\ scoring.mGamePhase < w.p.mCurrentPhase
               /\ isCurrentlyLoggingThreaded(w.p)
              THEN stopLoggingThreaded(w, writeOk)
              ELSE w
      w2 == [w1 EXCEPT !.p.mCurrentPhase = scoring.mGamePhase]
      i == FirstPlayer(scoring.mVehicle, 1)
  IN IF w1.thrown THEN w1
     ELSE IF ~isCurrentlyLoggingThreaded(w2.p) \/ i = 0 THEN w2
     ELSE LET vinfo == scoring.mVehicle[i]
              w3 == IF ~w2.p.mSavedMetaData
                      THEN [saveMetadataThreaded(w2, scoring, vinfo) EXCEPT
                              !.p.mSavedMetaData = ~w2.p.mSavedMetaData]
                      ELSE w2
          IN IF vinfo.mSector # w3.p.mCurrentSector
               THEN saveSectorTimeThreaded(
                      [w3 EXCEPT !.p.mCurrentSector = vinfo.mSector], scoring, vinfo)
               ELSE w3

\* TelemInfoV2 (threaded): the field UpdateTelemetry reads
ThreadedFrames == [mLapStartET : {0, 1}]

\* ScoringInfoV2 (threaded), on an out-lap: the player is absent, or follows
\* another vehicle, in sector 2
ThreadedScorings ==
  LET entry(v) == v @@ [mLapStartET |-> 0]
  IN [mGamePhase : {kGamePhaseBeforeSession, kGamePhaseGreenFlag},
      mCurrentET : {2}, mTrackName : {"Track"},
      mVehicle : {<<entry(OtherEntry)>>} \cup
                 {<<entry(OtherEntry), entry(v)>> :
                    v \in PlayerEntries({kSectorsSector2}, {<<0, 0>>}, {<<0, 0>>})}]

\* LoggingPlugin::Startup (threaded).  mEnterPhase and mCurrentPhase are
\* assigned by no constructor.  hist is the number of threads created so far
\* and whether a worker has dereferenced the NULL Session.
InitThreaded ==
  /\ \E enterPhase \in IndeterminateEnterPhases,
        currentPhase \in IndeterminateCurrentPhases :
       plugin = [Session |-> NULL,
                 DataQueue |-> <<>>,
                 mSamplingInterval |-> 1,
                 mEnterPhase |-> enterPhase,
                 mCurrentPhase |-> currentPhase,
                 mCurrentSector |-> 0,
                 mSavedMetaData |-> FALSE,
                 mCurrentLapET |-> 0]
  /\ calls = <<"Startup">>
  /\ thrown = FALSE
  /\ hist = [created |-> 0, fault |-> FALSE]
  /\ session = NULL
  /\ outcome = NULL
  /\ threads = {}

\* the engine is within the bounds of the model
ThreadedWithinBounds ==
  /\ hist.created <= MaxThreads
  /\ isCurrentlyLoggingThreaded(plugin) =>
       /\ Len(plugin.DataQueue[1]) <= MaxQueue
       /\ SampleCount(plugin.Session) <= MaxSamples
       /\ Len(plugin.Session.mMarkers) <= MaxMarkers

\* the return of a callback; CreateThread has created a thread at the top of
\* LoggingThread for each startLogging
ReturnThreaded(w) ==
  /\ ~hist.fault
  /\ plugin' = w.p
  /\ calls' = w.calls
  /\ thrown' = w.thrown
  /\ threads' = threads \cup
                  { [id |-> hist.created + n, pc |-> "while", section |-> 0] :
                      n \in 1..w.created }
  /\ hist' = [hist EXCEPT !.created = @ + w.created]
  /\ UNCHANGED <<session, outcome>>
  /\ ThreadedWithinBounds'

ThreadedEnterRealtime ==
  ReturnThreaded(DoEnterRealtimeThreaded(EnterThreaded("EnterRealtime")))

ThreadedExitRealtime ==
  \E writeOk \in BOOLEAN :
    ReturnThreaded(DoExitRealtimeThreaded(EnterThreaded("ExitRealtime"), writeOk))

ThreadedUpdateTelemetry ==
  \E frame \in ThreadedFrames :
    ReturnThreaded(DoUpdateTelemetryThreaded(EnterThreaded("UpdateTelemetry"), frame))

ThreadedUpdateScoring ==
  \E scoring \in ThreadedScorings, writeOk \in BOOLEAN :
    ReturnThreaded(DoUpdateScoringThreaded(EnterThreaded("UpdateScoring"),
                                           scoring, writeOk))

\* a step of a worker: its thread, the object and the fault flag after it;
\* it leaves the host's call log alone
WorkerStep(thread, after, p, fault) ==
  /\ ~hist.fault
  /\ threads' = (threads \ {thread}) \cup after
  /\ plugin' = p
  /\ hist' = [hist EXCEPT !.fault = fault]
  /\ UNCHANGED <<calls, thrown, session, outcome>>
  /\ ThreadedWithinBounds'

\* LoggingThread: the test of the DataQueue, and front/pop_front
LoggingThreadTest ==
  \E thread \in threads :
    /\ thread.pc = "while"
    /\ IF plugin.DataQueue = <<>>
         THEN WorkerStep(thread, {}, plugin, FALSE)
       ELSE IF plugin.DataQueue[1] # <<>>
         THEN WorkerStep(thread,
                         {[thread EXCEPT !.pc = "SampleBlock", !.section = 1]},
                         [plugin EXCEPT !.DataQueue[1] = Tail(@)], FALSE)
       ELSE WorkerStep(thread, {[thread EXCEPT !.pc = "Sleep"]}, plugin, FALSE)

\* LoggingThread: a section of SampleBlock on LoggingPlugin::Session.  When
\* the Session is NULL the call dereferences a null pointer: the process
\* faults, and takes no further step.
LoggingThreadSample ==
  \E thread \in threads :
    /\ thread.pc = "SampleBlock"
    /\ IF plugin.Session = NULL
         THEN WorkerStep(thread, {thread}, plugin, TRUE)
         ELSE WorkerStep(thread,
                {IF thread.section < Len(kThreadedSections)
                   THEN [thread EXCEPT !.section = @ + 1]
                   ELSE [thread EXCEPT !.pc = "Sleep", !.section = 0]},
                [plugin EXCEPT !.Session = SampleSection(@, thread.section)],
                FALSE)

\* LoggingThread: Sleep(mSamplingInterval) has elapsed
LoggingThreadSleep ==
  \E thread \in threads :
    /\ thread.pc = "Sleep"
    /\ WorkerStep(thread, {[thread EXCEPT !.pc = "while"]}, plugin, FALSE)

NextThreaded ==
  \/ ThreadedEnterRealtime
  \/ ThreadedExitRealtime
  \/ ThreadedUpdateTelemetry
  \/ ThreadedUpdateScoring
  \/ LoggingThreadTest
  \/ LoggingThreadSample
  \/ LoggingThreadSleep

SpecThreaded == InitThreaded /\ [][NextThreaded]_vars

(***************************************************************************)
(* SpecThreadedFair: the threaded engine under fair scheduling.  The       *)
(* operating system runs every thread that can run, and every Sleep ends:  *)
(* a worker that can take a step eventually takes one.  The host is under  *)
(* no obligation to call the plug-in.                                      *)
(***************************************************************************)
\* a step of the worker with the given id
LoggingThread(id) ==
  /\ LoggingThreadTest \/ LoggingThreadSample \/ LoggingThreadSleep
  /\ \E thread \in threads :
       thread.id = id /\ (thread \notin threads' \/ hist'.fault)

SpecThreadedFair ==
  SpecThreaded /\ \A id \in 1..MaxThreads : WF_vars(LoggingThread(id))

(***************************************************************************)
(* Vocabulary of the properties.                                           *)
(***************************************************************************)
\* the step is a run of the named host callback
Runs(name) == calls'[1] = name

\* every registered channel of the session holds at least n samples
EveryChannelHolds(s, n) ==
  \A key \in DOMAIN s.mChannels : Len(s.mChannels[key].mData) >= n

(***************************************************************************)
(* The recording state machine.                                            *)
(***************************************************************************)
\* C1: when the first UpdateTelemetry after EnterRealtime arrives while the
\* last phase reported by UpdateScoring is before-session (0), green-flag (5)
\* or full-course-yellow (6), then on its return logging is active, a session
\* exists and every channel holds at least one sample, whatever the frame's
\* lap-start elapsed time is.
C1_ImmediateStart ==
  [][(/\ hist.entered
      /\ hist.reported \in {<<kGamePhaseBeforeSession>>, <<kGamePhaseGreenFlag>>,
                            <<kGamePhaseFullCourseYellow>>}
      /\ Runs("UpdateTelemetry"))
     => /\ plugin'.mIsLogging
        /\ plugin'.mSession # NULL
        /\ EveryChannelHolds(plugin'.mSession, 1)]_vars

\* the first UpdateTelemetry after EnterRealtime has returned, the phase last
\* reported was before-session (which no later start condition accepts), and
\* the frame has started a session and has been sampled
C1_Witness ==
  /\ hist.first
  /\ hist.reported = <<kGamePhaseBeforeSession>>
  /\ calls = <<"UpdateTelemetry", "startLogging", "SampleBlock">>
  /\ plugin.mIsLogging
  /\ EveryChannelHolds(plugin.mSession, 1)


\* the phase recorded at real-time entry: by this UpdateTelemetry when none is
\* recorded yet, by an earlier one otherwise
EntryPhase ==
  IF plugin.mEnterPhase = kGamePhaseNotEnteredGame
    THEN plugin.mCurrentPhase
    ELSE plugin.mEnterPhase

\* C2: when the phase recorded at real-time entry is none of before-session,
\* green-flag and full-course-yellow, no session is created and no frame is
\* sampled until an UpdateTelemetry frame arrives at which the current phase
\* is >= green-flag (5) and the frame's lap-start elapsed time is > 0; logging
\* starts on the first such frame and on no earlier one.  While no session is
\* being logged, no callback but UpdateTelemetry creates one.
C2_DeferredStart ==
  [][~plugin.mIsLogging =>
       IF Runs("UpdateTelemetry")
         THEN EntryPhase \notin {kGamePhaseBeforeSession, kGamePhaseGreenFlag,
                                 kGamePhaseFullCourseYellow}
              => \A frame \in OutLapFrames :
                   TelemetryStep(frame) =>
                     IF /\ plugin.mCurrentPhase >= kGamePhaseGreenFlag
                        /\ frame.mLapStartET > 0
                       THEN /\ plugin'.mIsLogging
                            /\ EveryChannelHolds(plugin'.mSession, 1)
                       ELSE /\ ~plugin'.mIsLogging
                            /\ plugin'.mSession = NULL
         ELSE /\ ~plugin'.mIsLogging
              /\ plugin'.mSession = NULL]_vars

\* the entry phase was recorded as formation-lap, and a later frame, under
\* green, has started the session
C2_Witness ==
  /\ ~hist.first
  /\ plugin.mEnterPhase = kGamePhaseFormationLap
  /\ plugin.mCurrentPhase = kGamePhaseGreenFlag
  /\ calls = <<"UpdateTelemetry", "startLogging", "SampleBlock">>
  /\ plugin.mIsLogging

\* C3: when UpdateScoring reports a phase numerically lower than the phase
\* previously observed while logging is active, the session is stopped and
\* handed to saveSession inside that call, the call records no metadata and no
\* marker, and on its return logging is inactive, no session is held and the
\* entry phase is reset (kGamePhaseNotEnteredGame), so that the next
\* UpdateTelemetry evaluates the phase-entry logic against the new phase.
C3_RestartStops ==
  [][(/\ Runs("UpdateScoring")
      /\ plugin.mIsLogging
      /\ hist.reported # <<>>
      /\ hist'.reported[1] < hist.reported[1])
     => /\ Count(calls', "stopLogging") = 1
        /\ Count(calls', "saveSession") = 1
        /\ ~Called(calls', "saveMetadata")
        /\ ~Called(calls', "saveSectorTime")
        /\ ~Called(calls', "Session::AddMarker")
        /\ ~Called(calls', "Session::AddRelativeMarker")
        /\ ~plugin'.mIsLogging
        /\ plugin'.mSession = NULL
        /\ plugin'.mEnterPhase = kGamePhaseNotEnteredGame]_vars

\* a scoring update has stopped a session that had captured its metadata from
\* an earlier scoring update, and has reported before-session
C3_Witness ==
  /\ calls = <<"UpdateScoring", "stopLogging", "saveSession", "Session::Write">>
  /\ hist.reported = <<kGamePhaseBeforeSession>>
  /\ plugin.mSavedMetaData
  /\ ~plugin.mIsLogging
  /\ plugin.mEnterPhase = kGamePhaseNotEnteredGame

\* C4: over every sequence of EnterRealtime, ExitRealtime, UpdateTelemetry and
\* UpdateScoring calls at most one Session exists at a time: startLogging
\* never runs while a session is already active, so that no session is
\* replaced or dropped without first going through stopLogging.
C4_OneSession ==
  [][Called(calls', "startLogging") => plugin.mSession = NULL]_vars

\* C5: after any sequence of telemetry frames with no scoring update, every
\* channel registered in the session has the same length, the number of
\* sampled frames: each SampleBlock has appended exactly one value to each.
C5_EqualLengths ==
  (plugin.mIsLogging /\ hist.reported = <<>>)
  => \A key \in DOMAIN plugin.mSession.mChannels :
       Len(plugin.mSession.mChannels[key].mData) = SampleCount(plugin.mSession)

\* C6: when the require-one-lap policy is enabled and (current lap number -
\* entry lap number) < 1 at the moment of a stop, Session::Write is not called
\* for the session, on every stop path (ExitRealtime and restart detection).
C6_DiscardedUnwritten ==
  [][(/\ plugin.mIsLogging
      /\ plugin.mConfiguration.RequireOneLap
      /\ plugin.mCurrentLapNumber - plugin.mEnterLapNumber < 1
      /\ Called(calls', "stopLogging"))
     => /\ Called(calls', "saveSession")
        /\ ~Called(calls', "Session::Write")
        /\ plugin'.mSession = NULL]_vars

\* the restart detection has stopped a session of less than one lap under the
\* require-one-lap policy, and saveSession has returned without writing
C6_Witness ==
  /\ plugin.mConfiguration.RequireOneLap
  /\ plugin.mCurrentLapNumber - plugin.mEnterLapNumber < 1
  /\ calls = <<"UpdateScoring", "stopLogging", "saveSession">>
  /\ plugin.mSession = NULL

\* C7: ExitRealtime while logging hands the session to saveSession exactly
\* once and returns with logging inactive and no session held; ExitRealtime
\* while not logging changes no state of the plug-in.
C7_ExitFinalizes ==
  [][Runs("ExitRealtime") =>
       IF plugin.mIsLogging
         THEN /\ Count(calls', "saveSession") = 1
              /\ ~plugin'.mIsLogging
              /\ plugin'.mSession = NULL
         ELSE plugin' = plugin]_vars

\* ExitRealtime has stopped a session that held samples and has written it
C7_Witness ==
  /\ calls = <<"ExitRealtime", "stopLogging", "saveSession", "Session::Write">>
  /\ ~plugin.mIsLogging
  /\ plugin.mSession = NULL
  /\ plugin.mHasPreviousPosition

(***************************************************************************)
(* The sector/lap-time resolver.                                           *)
(***************************************************************************)
\* the step is a scoring update of a session that goes on
ScoringWhileLogging ==
  Runs("UpdateScoring") /\ plugin.mIsLogging /\ plugin'.mIsLogging

\* the step is a scoring update that detects a transition into the sector
Into(sector) ==
  /\ ScoringWhileLogging
  /\ plugin.mCurrentSector # sector
  /\ plugin'.mCurrentSector = sector

\* the step appends the marker to the session's, or leaves them alone
Marks(marker) ==
  plugin'.mSession.mMarkers = Append(plugin.mSession.mMarkers, marker)

MarksNothing == plugin'.mSession.mMarkers = plugin.mSession.mMarkers

\* the marker at the offset from the previous one, or from 0 when there is none
After(offset) ==
  LET markers == plugin.mSession.mMarkers
  IN IF markers = <<>> THEN offset ELSE markers[Len(markers)] + offset

\* the player's entry of a scoring update
Player(scoring) == scoring.mVehicle[FirstPlayer(scoring.mVehicle, 1)]

\* the scoring updates of SpecTimed
TimedScorings == Scorings({kGamePhaseGreenFlag}, TimedEntries)

NonDecreasing(seq) ==
  \A i \in 1..(Len(seq) - 1) : seq[i] <= seq[i + 1]

\* C11: after any sequence of telemetry and scoring updates within one
\* session, the session's marker list is non-decreasing: every marker
\* appended by the out-lap detection of UpdateTelemetry or by saveSectorTime
\* (absolute or relative) is >= the marker recorded before it.
C11_MarkersNonDecreasing ==
  plugin.mIsLogging => NonDecreasing(plugin.mSession.mMarkers)

\* the metadata fields of a session
Metadata(s) ==
  [mFullName |-> s.mFullName, mVehicleName |-> s.mVehicleName,
   mVehicleCategory |-> s.mVehicleCategory, mTrackName |-> s.mTrackName,
   mDataSource |-> s.mDataSource, mNumSectors |-> s.mNumSectors,
   mComments |-> s.mComments]

\* the metadata a scoring update reports for the player
Reported(scoring) ==
  [mFullName |-> Player(scoring).mDriverName,
   mVehicleName |-> Player(scoring).mVehicleName,
   mVehicleCategory |-> Player(scoring).mVehicleClass,
   mTrackName |-> scoring.mTrackName,
   mDataSource |-> "rFactor",
   mNumSectors |-> 2,
   mComments |-> IF scoring.mSession = 0 THEN "Testing" ELSE "Race"]

\* C12: session metadata (driver, vehicle, category, track, data source,
\* sector count, session-type comment) is written exactly once per session,
\* on the first scoring update after logging starts that contains the
\* player's vehicle: a scoring update of a session whose metadata is still as
\* constructed writes what it reports when it contains the player, and every
\* other scoring update of the session leaves all seven fields unchanged; a
\* session just started holds the metadata as constructed, whatever an
\* earlier session captured.
C12_MetadataOnce ==
  [][/\ ScoringWhileLogging =>
          \A scoring \in MetaScorings :
            ScoringStep(scoring, TRUE) =>
              IF /\ Metadata(plugin.mSession) = Metadata(NewSession)
                 /\ FirstPlayer(scoring.mVehicle, 1) # 0
                THEN /\ Count(calls', "saveMetadata") = 1
                     /\ Metadata(plugin'.mSession) = Reported(scoring)
                ELSE /\ ~Called(calls', "saveMetadata")
                     /\ Metadata(plugin'.mSession) = Metadata(plugin.mSession)
     /\ Called(calls', "startLogging") =>
          Metadata(plugin'.mSession) = Metadata(NewSession)]_vars

\* a scoring update that reports the player has returned without writing
\* metadata, in a session that had captured the other track and driver
C12_Witness ==
  /\ plugin.mIsLogging
  /\ calls = <<"UpdateScoring">>
  /\ plugin.mCurrentSector = kSectorsSector1
  /\ plugin.mSession.mTrackName = "Track B"
  /\ plugin.mSession.mFullName = "Driver B"
  /\ plugin.mSession.mComments = "Testing"

(***************************************************************************)
(* The write of a session.                                                 *)
(***************************************************************************)
\* C13: when Session::Write fails during a stop, the failure is caught inside
\* saveSession and reported, and does not reach the host callback; the
\* callback leaves the engine idle (logging inactive, no session held, entry
\* phase reset), in the very state the same callback leaves it in when the
\* write succeeds, so that everything after it, a later start included, goes
\* as after a successful write.
C13_WriteFailureContained ==
  [][Called(calls', "Session::Write") =>
       /\ ~thrown'
       /\ ~plugin'.mIsLogging
       /\ plugin'.mSession = NULL
       /\ plugin'.mEnterPhase = kGamePhaseNotEnteredGame
       /\ Runs("ExitRealtime") =>
            /\ plugin' = DoExitRealtime(Enter("ExitRealtime"), TRUE).p
            /\ ExitStep(FALSE) => calls'[Len(calls')] = "log(LOG_ERROR)"
       /\ Runs("UpdateScoring") =>
            \A scoring \in TimedScorings :
              ScoringStep(scoring, FALSE) =>
                /\ plugin' = DoUpdateScoring(Enter("UpdateScoring"), scoring, TRUE).p
                /\ calls'[Len(calls')] = "log(LOG_ERROR)"
       /\ ~Runs("UpdateTelemetry")]_vars

\* the restart detection has stopped a session, its write has failed and the
\* failure has been reported; the callback has returned to the host
C13_Witness ==
  /\ calls = <<"UpdateScoring", "stopLogging", "saveSession", "Session::Write",
               "log(LOG_ERROR)">>
  /\ ~thrown
  /\ ~plugin.mIsLogging
  /\ plugin.mSession = NULL
  /\ plugin.mEnterPhase = kGamePhaseNotEnteredGame

\* C14: Session::Write is invoked at most once per session over every
\* sequence of callbacks: a callback invokes it at most once, only for the
\* session being logged, and returns with that session dropped, whether the
\* write failed (no retry) or succeeded (no second write).
C14_WrittenAtMostOnce ==
  [][Called(calls', "Session::Write") =>
       /\ Count(calls', "Session::Write") = 1
       /\ Count(calls', "saveSession") = 1
       /\ plugin.mIsLogging
       /\ plugin.mSession # NULL
       /\ ~plugin'.mIsLogging
       /\ plugin'.mSession = NULL]_vars

\* ExitRealtime has stopped a session that held samples, its write has failed,
\* and the session is no longer held
C14_Witness ==
  /\ calls = <<"ExitRealtime", "stopLogging", "saveSession", "Session::Write",
               "log(LOG_ERROR)">>
  /\ plugin.mHasPreviousPosition
  /\ ~plugin.mIsLogging
  /\ plugin.mSession = NULL

(***************************************************************************)
(* The session model and the session writer.                               *)
(***************************************************************************)
\* the session has a channel registered under the name and the group
Registered(s, channelName, group) ==
  \E key \in DOMAIN s.mChannels :
    s.mChannels[key].mName = channelName /\ s.mChannels[key].mGroup = group

\* C15: Session::GetChannel for a (name, group) pair that was never registered
\* fails with an explicit error (also when the session has no channels at
\* all); for a registered pair it returns that channel.
C15_LookupFailsLoudly ==
  outcome.op = "GetChannel" =>
    IF Registered(session, outcome.args[1], outcome.args[2])
      THEN /\ outcome.throws = <<>>
           /\ session.mChannels[outcome.value[1]].mName = outcome.args[1]
           /\ session.mChannels[outcome.value[1]].mGroup = outcome.args[2]
      ELSE outcome.throws # <<>>

\* C16: Session::Write on a session that has zero channels fails with an
\* explicit error: it does not return successfully, and it leaves no archive
\* that holds the metadata document only.
C16_NoChannelsFails ==
  (outcome.op = "Write" /\ DOMAIN session.mChannels = {})
  => /\ outcome.throws # <<>>
     /\ Len(outcome.value) # 1

\* the archive entry names of the channel ids
kDataFileNames == <<"data/0.bin", "data/1.bin", "data/2.bin", "data/3.bin">>

\* the entries of an archive that have the name
EntriesNamed(archive, name) == {i \in DOMAIN archive : archive[i].name = name}

\* the latest call of the client is a Session::Write that has returned
Written == outcome.op = "Write" /\ outcome.throws = <<>>

\* C17: a successful Session::Write produces an archive with exactly one
\* meta.xml entry and exactly one data/<id>.bin entry per channel of the
\* session and no other entry, entry names pairwise distinct, each payload
\* being that channel's samples in the order they were written and of size
\* 4 x sample count bytes.
C17_ArchiveLayout ==
  Written =>
    LET archive == outcome.value
        channels == session.mChannels
    IN /\ Cardinality(EntriesNamed(archive, "meta.xml")) = 1
       /\ Len(archive) = 1 + Cardinality(DOMAIN channels)
       /\ \A i, j \in DOMAIN archive : archive[i].name = archive[j].name => i = j
       /\ \A key \in DOMAIN channels :
            LET entries == EntriesNamed(archive, kDataFileNames[channels[key].mId + 1])
            IN /\ Cardinality(entries) = 1
               /\ \A i \in entries :
                    /\ archive[i].bytes = channels[key].mData
                    /\ archive[i].size = 4 * Len(channels[key].mData)

\* a session of two channels, one holding two samples and one holding one, has
\* been written successfully
C17_Witness ==
  /\ Written
  /\ Len(outcome.value) = 3
  /\ \E key \in DOMAIN session.mChannels : session.mChannels[key].mData = <<1, 2>>
  /\ \E key \in DOMAIN session.mChannels : session.mChannels[key].mData = <<1>>

\* C18: serialization is lossless for all specified fields: every metadata
\* field set on the Session (user, vehicle name, vehicle category when set,
\* track, data source, comment, sector count), every channel's id, name,
\* group, units and interval, and every marker in order appear in the
\* metadata document of a successful Session::Write.
C18_Lossless ==
  Written =>
    LET xml == outcome.value[1].xml
        channels == session.mChannels
    IN /\ xml.user = session.mFullName
       /\ xml.vehicle.name = session.mVehicleName
       /\ session.mVehicleCategory # "" =>
            /\ "category" \in DOMAIN xml.vehicle
            /\ xml.vehicle.category = session.mVehicleCategory
       /\ xml.venue.name = session.mTrackName
       /\ xml.datasource = session.mDataSource
       /\ xml.comments = session.mComments
       /\ session.mNumSectors # -1 => xml.markers.sectors = <<session.mNumSectors>>
       /\ xml.markers.marker = session.mMarkers
       /\ Len(xml.channels) = Cardinality(DOMAIN channels)
       /\ \A key \in DOMAIN channels :
            \E i \in DOMAIN xml.channels :
              /\ xml.channels[i].id = channels[key].mId
              /\ xml.channels[i].name = channels[key].mName
              /\ xml.channels[i].group =
                   IF channels[key].mGroup = "" THEN <<>> ELSE <<channels[key].mGroup>>
              /\ xml.channels[i].units =
                   IF channels[key].mUnits = "" THEN <<>> ELSE <<channels[key].mUnits>>
              /\ xml.channels[i].interval =
                   IF channels[key].mSampleInterval = -1
                     THEN <<>> ELSE <<channels[key].mSampleInterval>>

\* a step of the threaded engine that is a host callback, not a worker's
HostStep == threads \subseteq threads' /\ hist'.fault = hist.fault

\* C19: in the threaded engine, at any time at most one worker thread is
\* running against the active session, over every sequence of start, stop and
\* restart
C19_OneWorker ==
  isCurrentlyLoggingThreaded(plugin) => Cardinality(threads) <= 1

\* C20: in the threaded engine, when logging is stopped every frame already
\* on the queue has been sampled into the session before the session is
\* written, and no worker is part-way through a sample
C20_DrainedBeforeWrite ==
  [][HostStep /\ Called(calls', "Session::Write") =>
       /\ plugin.DataQueue[1] = <<>>
       /\ \A thread \in threads : thread.pc # "SampleBlock"]_vars

\* C21: in the threaded engine, serialization never overlaps sampling: when
\* stopLogging calls Session::Write, no worker is inside SampleBlock
C21_WriteAfterSampling ==
  [][HostStep /\ Called(calls', "Session::Write") =>
       ~\E thread \in threads : thread.pc = "SampleBlock"]_vars

\* C22: in the threaded engine, the number of admitted frames waiting in the
\* queue never exceeds a fixed bound, whatever the rate of UpdateTelemetry:
\* the queue stays below MaxQueue, the most frames the model lets it hold
C22_QueueBounded ==
  isCurrentlyLoggingThreaded(plugin) => Len(plugin.DataQueue[1]) < MaxQueue


(***************************************************************************)
(* The sampler and the transient recording state.                          *)
(***************************************************************************)
\* C23: in the synchronous engine, whenever a callback returns with logging
\* active every channel of the session holds at least one sample, and every
\* session handed to saveSession holds at least one sample per channel
C23_AtLeastOneSample ==
  [][/\ plugin'.mIsLogging => EveryChannelHolds(plugin'.mSession, 1)
     /\ Called(calls', "saveSession") =>
          /\ plugin.mIsLogging
          /\ EveryChannelHolds(plugin.mSession, 1)]_vars

\* a callback has started logging and returned: the session holds the sample
\* of the starting frame and no other
C23_Witness ==
  /\ plugin.mIsLogging
  /\ Called(calls, "startLogging")
  /\ \E key \in DOMAIN plugin.mSession.mChannels :
       Len(plugin.mSession.mChannels[key].mData) = 1


\* the samples the step adds to the running session
Sampled == SampleCount(plugin'.mSession) - SampleCount(plugin.mSession)

\* C24: in the synchronous engine with a positive sampling interval, the
\* starting frame is sampled once; a later frame is sampled only if the
\* delta-time accumulated over the frames since the last sample is at least
\* the interval, and at most once; and the sample count never exceeds
\* 1 + floor(total elapsed time / interval)
C24_SampledAtCadence ==
  [][Runs("UpdateTelemetry") /\ plugin'.mIsLogging /\ ~thrown'
     /\ plugin'.mSamplingIntervalSeconds > 0 =>
       LET delta == plugin'.mTotalElapsed
                      - (IF Called(calls', "startLogging") THEN 0
                         ELSE plugin.mTotalElapsed)
       IN /\ SampleCount(plugin'.mSession)
               <= 1 + (plugin'.mTotalElapsed \div plugin'.mSamplingIntervalSeconds)
          /\ Called(calls', "startLogging") =>
               /\ SampleCount(plugin'.mSession) = 1
               /\ plugin'.mTimeSinceLastSample = delta
          /\ ~Called(calls', "startLogging") =>
               /\ Sampled \in {0, 1}
               /\ Sampled = 1 =>
                    plugin.mTimeSinceLastSample >= plugin.mSamplingIntervalSeconds
               /\ plugin'.mTimeSinceLastSample =
                    (IF Sampled = 1 THEN 0 ELSE plugin.mTimeSinceLastSample) + delta]_vars

\* a frame after the starting frame has been sampled, at a positive interval
C24_Witness ==
  /\ plugin.mIsLogging
  /\ plugin.mSamplingIntervalSeconds > 0
  /\ calls = <<"UpdateTelemetry", "SampleBlock">>
  /\ SampleCount(plugin.mSession) = 2


\* the samples of the Distance channel of a session
DistanceData(s) == s.mChannels[ChannelKey(kChannelDistance, kGroupPosition)].mData

\* C25: the Distance channel's first sample of every session is 0, and each
\* later sample is the previous sample plus the Euclidean distance between
\* the positions of the two consecutive sampled frames: positions (0,0,0)
\* then (3,4,0) give 5, and nothing carries over from an earlier session
C25_CumulativeDistance ==
  plugin.mIsLogging =>
    LET data == DistanceData(plugin.mSession)
        positions == hist.positions
    IN /\ Len(data) = Len(positions)
       /\ Len(data) >= 1
       /\ data[1] = 0
       /\ \A i \in 2..Len(data) :
            data[i] = data[i - 1] + Distance(positions[i - 1], positions[i])
       /\ positions = << <<0, 0, 0>>, <<3, 4, 0>> >> => data = <<0, 5>>

\* a session has sampled a frame at (3,4,0), its first, and then a frame at
\* the origin
C25_Witness ==
  /\ plugin.mIsLogging
  /\ hist.positions = << <<3, 4, 0>>, <<0, 0, 0>> >>
  /\ DistanceData(plugin.mSession) = <<0, 5>>


\* C26: after CreateLoggingSession the session holds one distinct channel for
\* every AddChannel of the catalogue, the wheel channels in four distinct
\* wheel groups, with the ids 0..N-1 of the creation order and none missing
C26_CatalogueComplete ==
  plugin.mIsLogging =>
    LET channels == plugin.mSession.mChannels
    IN /\ Cardinality(DOMAIN channels) = Len(kCatalogue)
       /\ {channels[key].mId : key \in DOMAIN channels} = 0..(Len(kCatalogue) - 1)
       /\ Cardinality({kWheels[wheel] : wheel \in DOMAIN kWheels}) = Len(kWheels)


\* the object with the transient recording state as Startup leaves it, and
\* the configuration and the phases of the running object
Fresh(p) ==
  [StartupPlugin(p.mSamplingInterval, p.mConfiguration.RequireOneLap,
                 p.mEnterPhase, p.mCurrentPhase)
     EXCEPT !.mSession = p.mSession, !.mIsLogging = p.mIsLogging]

\* C27: the transient recording state is reset at every start and every
\* stop.  A callback that starts logging returns with sector 1, the metadata
\* flag false, the entry lap and the current lap the starting frame's lap
\* number, distance 0, and the elapsed time and the time since the last
\* sample those of the starting frame alone; it returns what it would return
\* had no session gone before.  A callback that stops returns with logging
\* inactive, no session held and the entry phase 'not entered'.
C27_TransientStateReset ==
  [][/\ Runs("UpdateTelemetry") /\ Called(calls', "startLogging") =>
          \E frame \in DistanceFrames :
            /\ plugin'.mCurrentSector = kSectorsSector1
            /\ plugin'.mSavedMetaData = FALSE
            /\ plugin'.mEnterLapNumber = frame.mLapNumber
            /\ plugin'.mCurrentLapNumber = frame.mLapNumber
            /\ plugin'.mTotalElapsed = frame.mDeltaTime
            /\ plugin'.mTimeSinceLastSample = frame.mDeltaTime
            /\ plugin'.mFirstLapET = 0
            /\ plugin'.mCumulativeDistance = 0
            /\ plugin'.mPreviousPosition = frame.mPos
            /\ plugin' = DoUpdateTelemetry(
                           [Enter("UpdateTelemetry") EXCEPT !.p = Fresh(plugin)],
                           frame).p
     /\ Called(calls', "stopLogging") =>
          /\ ~plugin'.mIsLogging
          /\ plugin'.mSession = NULL
          /\ plugin'.mEnterPhase = kGamePhaseNotEnteredGame]_vars

\* a callback has stopped a session in which time has passed and the car has
\* moved: the next start finds these values in the object
C27_Witness ==
  /\ Called(calls, "stopLogging")
  /\ plugin.mSession = NULL
  /\ plugin.mTotalElapsed > 0
  /\ plugin.mCumulativeDistance > 0
  /\ plugin.mHasPreviousPosition


\* C28: sampling and marker recording do not interfere.  A frame that is
\* sampled into the running session changes the channel buffers, the lap
\* number, the accumulated distance and the previous position (and the entry
\* phase and the elapsed times UpdateTelemetry keeps), and leaves the marker
\* list and the metadata as they were; UpdateScoring while logging changes no channel
\* buffer.
C28_SamplingApartFromMarkers ==
  [][/\ Runs("UpdateTelemetry") /\ Called(calls', "SampleBlock")
        /\ ~Called(calls', "startLogging")
        /\ ~Called(calls', "Session::AddMarker") =>
          /\ plugin'.mSession.mMarkers = plugin.mSession.mMarkers
          /\ Metadata(plugin'.mSession) = Metadata(plugin.mSession)
          /\ plugin' = [plugin EXCEPT
               !.mSession.mChannels = plugin'.mSession.mChannels,
               !.mCurrentLapNumber = plugin'.mCurrentLapNumber,
               !.mCumulativeDistance = plugin'.mCumulativeDistance,
               !.mPreviousPosition = plugin'.mPreviousPosition,
               !.mHasPreviousPosition = plugin'.mHasPreviousPosition,
               !.mEnterPhase = plugin'.mEnterPhase,
               !.mTotalElapsed = plugin'.mTotalElapsed,
               !.mTimeSinceLastSample = plugin'.mTimeSinceLastSample]
          /\ SampleCount(plugin'.mSession) > SampleCount(plugin.mSession)
     /\ Runs("UpdateScoring") /\ plugin.mIsLogging /\ plugin'.mIsLogging =>
          plugin'.mSession.mChannels = plugin.mSession.mChannels]_vars

\* a frame has been sampled into a session that holds markers and metadata
C28_Witness ==
  /\ calls = <<"UpdateTelemetry", "SampleBlock">>
  /\ plugin.mIsLogging
  /\ plugin.mSavedMetaData
  /\ Len(plugin.mSession.mMarkers) >= 1


\* the scoring update with every vehicle entry but the first one flagged as
\* the player removed
FirstPlayerOnly(scoring) ==
  LET players == SelectSeq(scoring.mVehicle, LAMBDA v : v.mIsPlayer)
  IN [scoring EXCEPT !.mVehicle =
        IF players = <<>> THEN <<>> ELSE <<Head(players)>>]

\* C29: in UpdateScoring only the first vehicle entry flagged as the player
\* affects metadata, current sector and markers: the update does what it does
\* with every other entry removed; and an update with no player entry changes
\* nothing but the tracked phase, apart from a stop at a restart
C29_FirstPlayerOnly ==
  \A scoring \in PlayersScorings, writeOk \in BOOLEAN :
    LET w == Enter("UpdateScoring")
        done == DoUpdateScoring(w, scoring, writeOk)
    IN /\ done = DoUpdateScoring(w, FirstPlayerOnly(scoring), writeOk)
       /\ FirstPlayerOnly(scoring).mVehicle = <<>> =>
            done.p = [(IF scoring.mGamePhase < plugin.mCurrentPhase
                          /\ plugin.mIsLogging
                         THEN stopLogging(w, writeOk).p
                         ELSE plugin)
                        EXCEPT !.mCurrentPhase = scoring.mGamePhase]

\* an update that lists two players, the second player first, has saved the
\* metadata of the running session
C29_Witness ==
  /\ plugin.mIsLogging
  /\ Called(calls, "saveMetadata")
  /\ plugin.mSession.mFullName = "Driver B"
  /\ plugin.mCurrentSector = kSectorsSector3


\* C30: Session::AddMarker(x) appends x; Session::AddRelativeMarker(x)
\* appends the last marker plus x when a marker exists and x when none does;
\* each call lengthens the marker list by exactly one, leaves the earlier
\* markers as they were and changes nothing else of the session
C30_MarkersAppend ==
  [][outcome'.op \in {"AddMarker", "AddRelativeMarker"} =>
       LET x == outcome'.args[1]
           before == session.mMarkers
           after == session'.mMarkers
       IN /\ Len(after) = Len(before) + 1
          /\ SubSeq(after, 1, Len(before)) = before
          /\ session' = [session EXCEPT !.mMarkers = after]
          /\ outcome'.op = "AddMarker" => after[Len(after)] = x
          /\ outcome'.op = "AddRelativeMarker" =>
               after[Len(after)] =
                 IF Len(before) >= 1 THEN before[Len(before)] + x ELSE x]_vars

\* AddRelativeMarker(1) has been called on a session whose last marker was 2
C30_Witness ==
  /\ outcome.op = "AddRelativeMarker"
  /\ outcome.args = <<1>>
  /\ session.mMarkers = <<2, 3>>


(***************************************************************************)
(* Properties the code implies.                                            *)
(***************************************************************************)
\* C31: in the synchronous engine, between callbacks logging is flagged
\* active if and only if a Session object is held
C31_LoggingIffSession ==
  plugin.mIsLogging <=> plugin.mSession # NULL

\* a callback has stopped a session that held samples: the flag is clear
\* and no session is held
C31_Witness ==
  /\ Called(calls, "stopLogging")
  /\ ~plugin.mIsLogging
  /\ plugin.mSession = NULL
  /\ plugin.mCurrentPhase = kGamePhaseGreenFlag


(***************************************************************************)
(* Laps and lap boundaries.                                                *)
(***************************************************************************)
\* C32: when a frame admitted while logging has reported a lap above the lap
\* of entry, the stop of the session finds a completed-lap count of at least
\* one and writes the session
C32_LapSeenIsWritten ==
  [][(/\ plugin.mIsLogging
      /\ hist.lapSeen
      /\ Called(calls', "saveSession"))
       => /\ plugin.mCurrentLapNumber - plugin.mEnterLapNumber >= 1
          /\ Called(calls', "Session::Write")]_vars

\* C33: UpdateTelemetry records at most one out-lap marker in a session
C33_OneOutLapMarker ==
  hist.outLaps <= 1

\* C34: a scoring update records a marker only when the sector it reports for
\* the player differs from the sector the previous scoring update of the same
\* session reported
C34_SectorChangeOnly ==
  [][(/\ Runs("UpdateScoring")
      /\ plugin.mIsLogging
      /\ plugin'.mIsLogging
      /\ Len(plugin'.mSession.mMarkers) > Len(plugin.mSession.mMarkers))
       => /\ hist.scored # <<>>
          /\ hist'.scored # hist.scored]_vars

\* C35: at a lap boundary at most one of UpdateTelemetry (the out-lap marker)
\* and saveSectorTime (the sector-1 case) records a marker
C35_OneMarkerPerCrossing ==
  Cardinality(hist.crossing) <= 1

\* C36: the UpdateTelemetry that follows an ExitRealtime that has stopped a
\* session starts no session
C36_NoStartAfterExit ==
  [][(/\ calls[1] = "ExitRealtime"
      /\ Called(calls, "stopLogging")
      /\ Runs("UpdateTelemetry"))
       => ~Called(calls', "startLogging")]_vars


(***************************************************************************)
(* The worker thread of the threaded engine.                               *)
(***************************************************************************)
\* the step is a worker taking a frame from the DataQueue
TakesFrame ==
  /\ plugin.DataQueue # <<>>
  /\ plugin'.DataQueue # <<>>
  /\ \E thread \in threads' :
       thread.pc = "SampleBlock" /\ thread.section = 1 /\ thread \notin threads

\* C37: the frame a worker takes from the DataQueue is the oldest frame still
\* queued, so that the frames are sampled in the order of their admission
C37_OldestFirst ==
  [][TakesFrame =>
       LET queue == plugin.DataQueue[1]
       IN plugin'.DataQueue[1] = SubSeq(queue, 1, Len(queue) - 1)]_vars

\* C38: no worker calls SampleBlock on a Session that stopLogging has set to
\* NULL
C38_NoUseAfterStop ==
  ~hist.fault


\* the worker with the given id has been created and has not returned
Alive(id) == \E thread \in threads : thread.id = id

\* C39: under fair scheduling every worker returns after the stopLogging
\* that ends its session (or the process has faulted)
C39_WorkerTerminates ==
  \A id \in 1..MaxThreads :
    (Alive(id) /\ plugin.DataQueue = <<>>) ~> (~Alive(id) \/ hist.fault)

====
